---- MODULE Spec2Model ----
(***************************************************************************)
(* Application lifecycle of the bot: the applications table of             *)
(* bot/core/database.py (ApplicationsDatabase) and the handlers of         *)
(* bot/cogs/applications.py (Applications) that read and write it.         *)
(*                                                                         *)
(* A handler of the cog is a coroutine: between two awaits it runs without *)
(* interruption, and every ApplicationsDatabase method is synchronous.     *)
(* An action of this module is one such uninterrupted segment.  What the    *)
(* transport and the guild directory answer (a DM is delivered or refused, *)
(* a role exists or not) is an input of the action, drawn with \E.         *)
(***************************************************************************)
EXTENDS Integers, Sequences, FiniteSets, TLC

(***************************************************************************)
(* Bounds of the model.                                                    *)
(***************************************************************************)
\* application ids handed out by AUTOINCREMENT before the model stops
MaxApps == 2
\* clock ticks before the model stops
MaxTicks == 3
\* apply handlers suspended at the same time
MaxTasks == 1
\* questions a position has before staff stop adding to it
MaxQuestions == 3
\* unmute tasks created in one run of the bot
MaxTimers == 2

(***************************************************************************)
(* Program constants.                                                      *)
(***************************************************************************)
\* database.py:598  datetime.timedelta(hours=24)
ExpiryHours == 24

\* hours that pass with one tick of the clock: half the expiry window, so
\* that ages below, at and above the window all occur
TickHours == ExpiryHours \div 2

Users == {101, 102}
PosIds == {1, 2, 3}
\* the guild of the deployment (bot.guilds[0]) and another guild id
Guild == "G1"
OtherGuild == "G2"
\* the channel a staff member configured with set_applications_channel;
\* NoChannel is Python's None
Chan == "C1"
NoChannel == "None"
\* role ids: outcome roles of a position, staff roles of the guild
Roles == {10, 20}

Terminal == {"accepted", "rejected", "withdrawn"}
Statuses ==
    {"in_progress", "submitted", "pending", "under_review", "accepted",
     "rejected", "withdrawn", "flagged", "on_hold"}

(***************************************************************************)
(* Text.  A text is a sequence of tokens; "\n", " " and "," are the tokens *)
(* the code treats as structure or as white space.                         *)
(***************************************************************************)
White == {" ", "\n"}

RECURSIVE LStrip(_)
LStrip(s) ==
    IF s # <<>> /\ Head(s) \in White THEN LStrip(Tail(s)) ELSE s

RECURSIVE RStrip(_)
RStrip(s) ==
    IF s # <<>> /\ s[Len(s)] \in White
    THEN RStrip(SubSeq(s, 1, Len(s) - 1))
    ELSE s

\* str.strip()
Strip(s) == RStrip(LStrip(s))

\* sep.join(parts), parts a sequence of texts
RECURSIVE Join(_, _)
Join(parts, sep) ==
    IF parts = <<>> THEN <<>>
    ELSE IF Len(parts) = 1 THEN parts[1]
    ELSE parts[1] \o <<sep>> \o Join(Tail(parts), sep)

\* str.split(sep): the pieces between the separators, empty pieces included
RECURSIVE SplitAcc(_, _, _)
SplitAcc(s, sep, cur) ==
    IF s = <<>> THEN <<cur>>
    ELSE IF Head(s) = sep THEN <<cur>> \o SplitAcc(Tail(s), sep, <<>>)
    ELSE SplitAcc(Tail(s), sep, Append(cur, Head(s)))

Split(s, sep) == SplitAcc(s, sep, <<>>)

RECURSIVE SelectNonEmpty(_)
SelectNonEmpty(parts) ==
    IF parts = <<>> THEN <<>>
    ELSE IF Head(parts) = <<>> THEN SelectNonEmpty(Tail(parts))
    ELSE <<Head(parts)>> \o SelectNonEmpty(Tail(parts))

\* int(text): the role ids the model knows; anything else raises ValueError
IsInt(t) == Strip(t) \in {<<"10">>, <<"20">>}
ParseInt(t) == IF Strip(t) = <<"10">> THEN 10 ELSE 20

\* str(role id)
IntToText(n) == IF n = 10 THEN <<"10">> ELSE <<"20">>

\* [f(x) for x in s]
RECURSIVE MapInt(_)
MapInt(parts) ==
    IF parts = <<>> THEN <<>> ELSE <<ParseInt(Head(parts))>> \o MapInt(Tail(parts))

RECURSIVE MapText(_)
MapText(ids) ==
    IF ids = <<>> THEN <<>> ELSE <<IntToText(Head(ids))>> \o MapText(Tail(ids))

Range(s) == {s[i] : i \in 1..Len(s)}

(***************************************************************************)
(* State.                                                                  *)
(***************************************************************************)
VARIABLES
    \* table positions: position_id -> row, in stored (encoded) form
    positions,
    \* table applications: application_id -> row
    apps,
    \* the next AUTOINCREMENT application_id
    nextId,
    \* table application_flags: user_id -> guild_id of the flag (NoChannel
    \* for NULL, a global flag)
    flags,
    \* table application_blacklist: the blacklisted user ids
    blacklist,
    \* table applications_channel: the channel configured for the guild
    channel,
    \* datetime.datetime.now(), in hours
    now,
    \* the handlers suspended at an await, with what they hold in their
    \* locals: apply between its DM and start_application, approve between
    \* its status write and its side effects
    pending,
    \* what the handler that ran last did towards the outside: its result,
    \* the direct messages and channel posts it attempted, the roles it
    \* reports as given (granted) and as failed, the roles the member was
    \* actually given (done)
    out,
    \* the Moderation cog: who holds the muted role, the table mute_timers,
    \* the unmute tasks created so far, the dict _unmute_tasks, and the mute
    \* and unmute handlers suspended at an await
    mod

vars == <<positions, apps, nextId, flags, blacklist, channel, now, pending, out, mod>>

\* the (guild_id, user_id) keys of _unmute_tasks
MuteKeys == {<<Guild, u>> : u \in Users}

\* the Moderation cog after __init__, with an empty table mute_timers:
\* rows counts the rows of a key, registry is _unmute_tasks (0: no entry)
NoModeration ==
    [muted |-> {}, rows |-> [k \in MuteKeys |-> 0], tasks |-> <<>>,
     registry |-> [k \in MuteKeys |-> 0], handlers |-> {}]

Null == NoChannel

(***************************************************************************)
(* What the transport and the guild directory answer to one handler:       *)
(*   guild           bot.guilds is not empty                               *)
(*   channelPresent  guild.get_channel(channel_id) finds the channel       *)
(*   permRoles       get_roles_for_permission("manage_applications")       *)
(*   guildRoles      the ids of guild.roles                                *)
(*   send1, send2    the first and the second channel.send of on_message   *)
(*   confirm         the confirmation on_message sends to the applicant    *)
(*   member          the applicant is (still) a member of the guild        *)
(*   role            per outcome role: it exists and is below the bot's    *)
(*                   top role ("ok"), is gone ("missing"), is not below    *)
(*                   ("above")                                             *)
(*   add             member.add_roles: it sends one request per role, in   *)
(*                   order, and raises at the first that fails             *)
(*   failAt          the position, among the roles passed to add_roles, of *)
(*                   the request that fails when add is not "ok"           *)
(*   dm              the direct message to the applicant                   *)
(*   post            the channel.send of a decision or a notice            *)
(***************************************************************************)
AllRolesOk == [r \in Roles |-> "ok"]

\* ... when nothing goes wrong
Calm ==
    [guild |-> TRUE, channelPresent |-> TRUE, permRoles |-> <<>>,
     guildRoles |-> Roles, send1 |-> "ok", send2 |-> "ok", confirm |-> "ok",
     member |-> TRUE,
     role |-> AllRolesOk, add |-> "ok", failAt |-> 1, dm |-> "ok", post |-> "ok"]

NoOut ==
    [op |-> "none", user |-> 0, app |-> 0, result |-> "none", status |-> "none",
     prompt |-> <<>>, reply |-> "none", dm |-> <<>>, posts |-> <<>>,
     granted |-> <<>>, failed |-> <<>>, text |-> <<>>, env |-> Calm,
     position |-> 0, done |-> <<>>, reason |-> <<>>, value |-> <<>>,
     shown |-> <<>>]

(***************************************************************************)
(* ApplicationsDatabase: positions.                                        *)
(***************************************************************************)
\* add_position: the row a new position starts with
NewPositionRow(name) ==
    [name |-> name, description |-> <<>>, roles_given |-> <<>>, questions |-> <<>>,
     acceptance_message |-> <<>>, rejection_message |-> <<>>, open |-> TRUE]

\* modify(position_id, 'roles_given', value): ','.join(map(str, value))
EncodeRoles(ids) == Join(MapText(ids), ",")

\* modify(position_id, 'questions', value): '\n'.join(value)
EncodeQuestions(qs) == Join(qs, "\n")

RECURSIVE SelectNonBlank(_)
SelectNonBlank(parts) ==
    IF parts = <<>> THEN <<>>
    ELSE IF Head(parts) = <<>> \/ Strip(Head(parts)) = <<>>
         THEN SelectNonBlank(Tail(parts))
         ELSE <<Head(parts)>> \o SelectNonBlank(Tail(parts))

\* _position_from_row reading `open` from a column that is never 0
PositionFromRowAlwaysOpen(id, row) ==
    [position_id |-> id,
     name |-> row.name,
     description |-> row.description,
     roles_given |->
        IF row.roles_given = <<>> THEN <<>>
        ELSE MapInt(SelectNonBlank(Split(row.roles_given, ","))),
     questions |->
        IF row.questions = <<>> THEN <<>>
        ELSE SelectNonEmpty(Split(row.questions, "\n")),
     acceptance_message |-> row.acceptance_message,
     rejection_message |-> row.rejection_message,
     open |-> TRUE]

\* _position_from_row
PositionFromRow(id, row) ==
    [position_id |-> id,
     name |-> row.name,
     description |-> row.description,
     roles_given |->
        IF row.roles_given = <<>> THEN <<>>
        ELSE MapInt(SelectNonBlank(Split(row.roles_given, ","))),
     questions |->
        IF row.questions = <<>> THEN <<>>
        ELSE SelectNonEmpty(Split(row.questions, "\n")),
     acceptance_message |-> row.acceptance_message,
     rejection_message |-> row.rejection_message,
     open |-> row.open]

\* get_position: the decoded position; callers test HasPosition first
HasPosition(pos, id) == id \in DOMAIN pos
GetPosition(pos, id) == PositionFromRow(id, pos[id])

(***************************************************************************)
(* ApplicationsDatabase: applications.                                     *)
(***************************************************************************)
\* the in_progress rows selected without `user_id = ?`
InProgressOfAnyUser(a, u) ==
    {i \in DOMAIN a : a[i].status = "in_progress"}

\* ... WHERE user_id = ? AND status = 'in_progress'
InProgressOf(a, u) ==
    {i \in DOMAIN a : a[i].user_id = u /\ a[i].status = "in_progress"}

Max(S) == CHOOSE x \in S : \A y \in S : y <= x

\* start_application whose DELETE lost its `user_id = ?`
StartApplicationDeletesAll(a, id, u, p, t) ==
    LET kept == {i \in DOMAIN a : a[i].status # "in_progress"}
    IN  [i \in kept \cup {id} |->
            IF i = id
            THEN [user_id |-> u, position_id |-> p, answers |-> <<>>,
                  status |-> "in_progress", submission_date |-> t]
            ELSE a[i]]

\* start_application without its DELETE
StartApplicationKeepsOld(a, id, u, p, t) ==
    [i \in DOMAIN a \cup {id} |->
        IF i = id
        THEN [user_id |-> u, position_id |-> p, answers |-> <<>>,
              status |-> "in_progress", submission_date |-> t]
        ELSE a[i]]

\* start_application: DELETE the user's in_progress rows, INSERT a new one
StartApplication(a, id, u, p, t) ==
    LET kept == DOMAIN a \ InProgressOf(a, u)
    IN  [i \in kept \cup {id} |->
            IF i = id
            THEN [user_id |-> u, position_id |-> p, answers |-> <<>>,
                  status |-> "in_progress", submission_date |-> t]
            ELSE a[i]]

\* get_in_progress_application: ... ORDER BY application_id DESC LIMIT 1
HasInProgress(a, u) == InProgressOf(a, u) # {}
GetInProgressApplication(a, u) == Max(InProgressOf(a, u))

\* submit_application with `>=` for `>` in the expiry test
SubmitApplicationExpiresAtLimit(a, u, answers, t) ==
    IF InProgressOf(a, u) = {}
    THEN [ok |-> FALSE, reason |-> "no_in_progress", id |-> 0, position_id |-> 0,
          apps |-> a]
    ELSE LET id == Max(InProgressOf(a, u))
             started == a[id].submission_date
         IN  IF t - started >= ExpiryHours
             THEN [ok |-> FALSE, reason |-> "expired", id |-> id,
                   position_id |-> a[id].position_id,
                   apps |-> [i \in DOMAIN a \ {id} |-> a[i]]]
             ELSE [ok |-> TRUE, reason |-> "none", id |-> id,
                   position_id |-> a[id].position_id,
                   apps |-> [a EXCEPT ![id] =
                               [@ EXCEPT !.answers = answers,
                                         !.status = "submitted",
                                         !.submission_date = t]]]

\* submit_application whose UPDATE leaves the status in_progress
SubmitApplicationStaysOpen(a, u, answers, t) ==
    IF InProgressOf(a, u) = {}
    THEN [ok |-> FALSE, reason |-> "no_in_progress", id |-> 0, position_id |-> 0,
          apps |-> a]
    ELSE LET id == Max(InProgressOf(a, u))
             started == a[id].submission_date
         IN  IF t - started > ExpiryHours
             THEN [ok |-> FALSE, reason |-> "expired", id |-> id,
                   position_id |-> a[id].position_id,
                   apps |-> [i \in DOMAIN a \ {id} |-> a[i]]]
             ELSE [ok |-> TRUE, reason |-> "none", id |-> id,
                   position_id |-> a[id].position_id,
                   apps |-> [a EXCEPT ![id] =
                               [@ EXCEPT !.answers = answers,
                                         !.submission_date = t]]]

\* submit_application: (ok, reason, application_id, position_id) and the table
SubmitApplication(a, u, answers, t) ==
    IF InProgressOf(a, u) = {}
    THEN [ok |-> FALSE, reason |-> "no_in_progress", id |-> 0, position_id |-> 0,
          apps |-> a]
    ELSE LET id == Max(InProgressOf(a, u))
             started == a[id].submission_date
         IN  IF t - started > ExpiryHours
             THEN [ok |-> FALSE, reason |-> "expired", id |-> id,
                   position_id |-> a[id].position_id,
                   apps |-> [i \in DOMAIN a \ {id} |-> a[i]]]
             ELSE [ok |-> TRUE, reason |-> "none", id |-> id,
                   position_id |-> a[id].position_id,
                   apps |-> [a EXCEPT ![id] =
                               [@ EXCEPT !.answers = answers,
                                         !.status = "submitted",
                                         !.submission_date = t]]]

\* get_application
HasApplication(a, id) == id \in DOMAIN a

\* get_latest_submitted_application
SubmittedOf(a, u) ==
    {i \in DOMAIN a : a[i].user_id = u /\ a[i].status = "submitted"}

\* withdraw_application: (updated, table)
WithdrawApplication(a, id) ==
    IF id \notin DOMAIN a THEN [ok |-> FALSE, apps |-> a]
    ELSE IF a[id].status = "withdrawn" THEN [ok |-> FALSE, apps |-> a]
    ELSE [ok |-> TRUE, apps |-> [a EXCEPT ![id].status = "withdrawn"]]

\* set_application_status without the comparison with the stored status
SetApplicationStatusAlways(a, id, status) ==
    IF id \notin DOMAIN a THEN [ok |-> FALSE, apps |-> a]
    ELSE [ok |-> TRUE, apps |-> [a EXCEPT ![id].status = status]]

\* set_application_status: (updated, table)
SetApplicationStatus(a, id, status) ==
    IF id \notin DOMAIN a THEN [ok |-> FALSE, apps |-> a]
    ELSE IF a[id].status = status THEN [ok |-> FALSE, apps |-> a]
    ELSE [ok |-> TRUE, apps |-> [a EXCEPT ![id].status = status]]

\* is_user_flagged without the guild_id in its WHERE clause
IsUserFlaggedAnyScope(f, u, g) == u \in DOMAIN f

\* is_user_flagged(user_id, guild_id)
IsUserFlagged(f, u, g) ==
    IF g = Null THEN u \in DOMAIN f
    ELSE u \in DOMAIN f /\ (f[u] = Null \/ f[u] = g)

\* is_user_blacklisted looking the user up in application_flags
IsUserBlacklistedByFlag(b, u) == u \in DOMAIN flags

\* is_user_blacklisted
IsUserBlacklisted(b, u) == u \in b

(***************************************************************************)
(* What a handler did towards the outside.                                 *)
(***************************************************************************)
Outcomes == {"ok", "forbidden", "error"}

\* one direct message to the applicant
DirectMessage(u, kind, msg, outcome) ==
    [to |-> u, kind |-> kind, msg |-> msg, outcome |-> outcome]

\* one channel.send to the applications channel: the role ids and the user
\* it mentions, whether it carries the "@Staff" token, and its message
ChannelPost(kind, roles, user, staff, msg, outcome) ==
    [kind |-> kind, roles |-> roles, user |-> user, staff |-> staff,
     msg |-> msg, outcome |-> outcome]

\* out: what the step that ran last did towards the outside, and what the
\* outside answered to it (env).
\* what one uninterrupted segment of a handler leaves behind: the tables and
\* the suspended handlers after it, and what it did towards the outside.
\* enabled is FALSE only where a bound of the model stops the segment.
Effect(a, o) ==
    [enabled |-> TRUE, apps |-> a, nextId |-> nextId, pending |-> pending, out |-> o]

(***************************************************************************)
(* Applications.apply                                                      *)
(***************************************************************************)
\* the DM embed with the first question only
ApplyPromptFirstOnly(questions) ==
    IF questions = <<>> THEN << <<0, <<"No Questions">> >> >>
    ELSE << <<1, questions[1]>> >>

\* the fields of the DM embed: one "Question idx" field per question, or
\* the single "No Questions" field
ApplyPrompt(questions) ==
    IF questions = <<>> THEN << <<0, <<"No Questions">> >> >>
    ELSE [i \in 1..Len(questions) |-> <<i, questions[i]>>]

\* apply with start_application moved before the DM: the handler goes on to
\* create the row although the DM was refused
ApplyBeginStartsFirst(u, p, send) ==
    LET base == [NoOut EXCEPT !.op = "apply", !.user = u, !.position = p] IN
    IF IsUserBlacklisted(blacklist, u)
    THEN Effect(apps, [base EXCEPT !.result = "Blocked"])
    ELSE IF ~HasPosition(positions, p)
    THEN Effect(apps, [base EXCEPT !.result = "NotFound"])
    ELSE IF ~GetPosition(positions, p).open
    THEN Effect(apps, [base EXCEPT !.result = "Closed"])
    ELSE LET prompt == ApplyPrompt(GetPosition(positions, p).questions)
             sent == [base EXCEPT !.prompt = prompt,
                                  !.dm = <<DirectMessage(u, "prompt", <<>>, send)>>]
         IN  IF send = "error"
             THEN Effect(apps, [sent EXCEPT !.result = "Error"])
             ELSE [Effect(apps, [sent EXCEPT !.result =
                                    IF send = "forbidden" THEN "DMFailed" ELSE "Prompted"])
                   EXCEPT
                      !.enabled = Len(pending) < MaxTasks,
                      !.pending = Append(pending, [kind |-> "apply", user |-> u,
                                                   position_id |-> p])]

\* apply up to and including `await ctx.author.send(embed=dm_embed)`
ApplyBegin(u, p, send) ==
    LET base == [NoOut EXCEPT !.op = "apply", !.user = u, !.position = p] IN
    IF IsUserBlacklisted(blacklist, u)
    THEN Effect(apps, [base EXCEPT !.result = "Blocked"])
    ELSE IF ~HasPosition(positions, p)
    THEN Effect(apps, [base EXCEPT !.result = "NotFound"])
    ELSE IF ~GetPosition(positions, p).open
    THEN Effect(apps, [base EXCEPT !.result = "Closed"])
    ELSE LET prompt == ApplyPrompt(GetPosition(positions, p).questions)
             sent == [base EXCEPT !.prompt = prompt,
                                  !.dm = <<DirectMessage(u, "prompt", <<>>, send)>>]
         IN  IF send = "forbidden"
             THEN Effect(apps, [sent EXCEPT !.result = "DMFailed"])
             ELSE IF send = "error"
             THEN \* any other exception leaves the handler
                  Effect(apps, [sent EXCEPT !.result = "Error"])
             ELSE [Effect(apps, [sent EXCEPT !.result = "Prompted"]) EXCEPT
                      !.enabled = Len(pending) < MaxTasks,
                      !.pending = Append(pending, [kind |-> "apply", user |-> u,
                                                   position_id |-> p])]

RemoveAt(s, i) == SubSeq(s, 1, i - 1) \o SubSeq(s, i + 1, Len(s))

\* apply from start_application on, resumed after the DM was delivered
ApplyFinish(i) ==
    IF i \notin 1..Len(pending) \/ pending[i].kind # "apply"
    THEN [Effect(apps, NoOut) EXCEPT !.enabled = FALSE]
    ELSE [Effect(StartApplication(apps, nextId, pending[i].user,
                                  pending[i].position_id, now),
                 [NoOut EXCEPT !.op = "apply", !.user = pending[i].user,
                               !.app = nextId, !.result = "Started"])
          EXCEPT !.enabled = nextId <= MaxApps,
                 !.nextId = nextId + 1,
                 !.pending = RemoveAt(pending, i)]

(***************************************************************************)
(* Applications.on_message                                                 *)
(***************************************************************************)
\* lines 54-58: the content, plus the attachment URLs when there are any
MessageAnswers(m) ==
    IF m.attachments # <<>>
    THEN Strip(m.content \o <<"\n", "\n", "Attachments:", "\n">>
               \o Join([i \in 1..Len(m.attachments) |-> <<m.attachments[i]>>], "\n"))
    ELSE m.content

\* the configured role ids that parse, present in the guild or not
RECURSIVE PresentRoleIdsUnfiltered(_, _)
PresentRoleIdsUnfiltered(role_ids, guildRoles) ==
    IF role_ids = <<>> THEN <<>>
    ELSE LET rid == Head(role_ids)
             rest == PresentRoleIdsUnfiltered(Tail(role_ids), guildRoles)
         IN  IF IsInt(rid) THEN <<ParseInt(rid)>> \o rest ELSE rest

\* lines 131-140: the configured role ids that parse and exist in the guild
RECURSIVE PresentRoleIds(_, _)
PresentRoleIds(role_ids, guildRoles) ==
    IF role_ids = <<>> THEN <<>>
    ELSE LET rid == Head(role_ids)
             rest == PresentRoleIds(Tail(role_ids), guildRoles)
         IN  IF IsInt(rid) /\ ParseInt(rid) \in guildRoles
             THEN <<ParseInt(rid)>> \o rest
             ELSE rest

\* lines 126-148: the mention line (none when the user is not flagged)
MentionText(f, u, env) ==
    IF ~IsUserFlagged(f, u, Guild) THEN [send |-> FALSE, roles |-> <<>>, staff |-> FALSE]
    ELSE LET present == PresentRoleIds(env.permRoles, env.guildRoles)
         IN  IF present # <<>>
             THEN [send |-> TRUE, roles |-> present, staff |-> FALSE]
             ELSE [send |-> TRUE, roles |-> <<>>, staff |-> TRUE]

\* lines 86-165: the completion hook, after the row was marked submitted
CompletionHook(u, answers, env) ==
    IF ~env.guild THEN [reply |-> "saved_no_guild", posts |-> <<>>]
    ELSE IF channel = NoChannel THEN [reply |-> "saved_no_channel", posts |-> <<>>]
    ELSE IF ~env.channelPresent THEN [reply |-> "saved_channel_missing", posts |-> <<>>]
    ELSE LET mention == MentionText(flags, u, env)
             first == ChannelPost("mention", mention.roles, 0, mention.staff, <<>>, env.send1)
             body == IF answers = <<>> THEN <<"(No content)">> ELSE answers
             embed == ChannelPost("submission", <<>>, u, FALSE, body, env.send2)
             failed(o) == IF o = "forbidden" THEN "none" ELSE "error"
         IN  IF mention.send /\ env.send1 # "ok"
             THEN [reply |-> failed(env.send1), posts |-> <<first>>]
             ELSE [reply |-> IF env.send2 # "ok" THEN failed(env.send2)
                             ELSE IF env.confirm # "ok" THEN failed(env.confirm)
                             ELSE "submitted",
                   posts |-> (IF mention.send THEN <<first>> ELSE <<>>) \o <<embed>>]

\* on_message undoing the submission when the hook could not route it
OnMessageRevertsUnrouted(u, m, env) ==
    LET base == [NoOut EXCEPT !.op = "answer", !.user = u, !.env = env]
        answers == MessageAnswers(m)
        submitted == SubmitApplication(apps, u, answers, now)
    IN  IF ~HasInProgress(apps, u)
        THEN Effect(apps, [base EXCEPT !.result = "NoInProgress"])
        ELSE IF ~submitted.ok
        THEN Effect(submitted.apps,
                    [base EXCEPT !.result = submitted.reason, !.app = submitted.id,
                                 !.reply = submitted.reason])
        ELSE LET hook == CompletionHook(u, answers, env)
             IN  Effect(IF hook.reply = "submitted" THEN submitted.apps ELSE apps,
                        [base EXCEPT !.result = "submitted", !.app = submitted.id,
                                     !.status = "submitted", !.text = answers,
                                     !.reply = hook.reply, !.posts = hook.posts])

\* a direct message of user u reaches the bot
\* on_message returning early for a blacklisted author
OnMessageRefusesBlacklisted(u, m, env) ==
    LET base == [NoOut EXCEPT !.op = "answer", !.user = u, !.env = env]
        answers == MessageAnswers(m)
        submitted == SubmitApplication(apps, u, answers, now)
    IN  IF ~HasInProgress(apps, u) \/ IsUserBlacklisted(blacklist, u)
        THEN Effect(apps, [base EXCEPT !.result = "NoInProgress"])
        ELSE IF ~submitted.ok
        THEN Effect(submitted.apps,
                    [base EXCEPT !.result = submitted.reason, !.app = submitted.id,
                                 !.reply = submitted.reason])
        ELSE LET hook == CompletionHook(u, answers, env)
             IN  Effect(submitted.apps,
                        [base EXCEPT !.result = "submitted", !.app = submitted.id,
                                     !.status = "submitted", !.text = answers,
                                     !.reply = hook.reply, !.posts = hook.posts])

OnMessage(u, m, env) ==
    LET base == [NoOut EXCEPT !.op = "answer", !.user = u, !.env = env]
        answers == MessageAnswers(m)
        submitted == SubmitApplication(apps, u, answers, now)
    IN  IF ~HasInProgress(apps, u)
        THEN Effect(apps, [base EXCEPT !.result = "NoInProgress"])
        ELSE IF ~submitted.ok
        THEN Effect(submitted.apps,
                    [base EXCEPT !.result = submitted.reason, !.app = submitted.id,
                                 !.reply = submitted.reason])
        ELSE LET hook == CompletionHook(u, answers, env)
             IN  Effect(submitted.apps,
                        [base EXCEPT !.result = "submitted", !.app = submitted.id,
                                     !.status = "submitted", !.text = answers,
                                     !.reply = hook.reply, !.posts = hook.posts])

(***************************************************************************)
(* Applications.withdraw                                                   *)
(***************************************************************************)
\* withdraw without its test for accepted and rejected applications
WithdrawSkipsProcessedTest(u, application_id, env) ==
    LET base == [NoOut EXCEPT !.op = "withdraw", !.user = u, !.app = application_id, !.env = env]
        byId == application_id # 0
        found == IF byId THEN HasApplication(apps, application_id)
                 ELSE SubmittedOf(apps, u) # {}
        id == IF byId THEN application_id ELSE Max(SubmittedOf(apps, u))
        done == WithdrawApplication(apps, id)
        notice == ChannelPost("withdrawn", <<>>, u, FALSE, <<>>, env.post)
    IN  IF ~found
        THEN Effect(apps, [base EXCEPT !.result = IF byId THEN "NotFound" ELSE "NoSubmitted"])
        ELSE IF apps[id].user_id # u
        THEN Effect(apps, [base EXCEPT !.result = "PermissionDenied"])
        ELSE IF apps[id].status = "withdrawn"
        THEN Effect(apps, [base EXCEPT !.result = "AlreadyWithdrawn", !.app = id])
        ELSE IF ~done.ok
        THEN Effect(apps, [base EXCEPT !.result = "WithdrawalFailed", !.app = id])
        ELSE Effect(done.apps,
                    [base EXCEPT
                        !.result = "Withdrawn", !.app = id, !.status = "withdrawn",
                        !.posts = IF env.guild /\ channel # NoChannel /\ env.channelPresent
                                  THEN <<notice>> ELSE <<>>])

\* application_id = 0 stands for the omitted argument (None)
\* withdraw without its ownership test
WithdrawSkipsOwnerTest(u, application_id, env) ==
    LET base == [NoOut EXCEPT !.op = "withdraw", !.user = u, !.app = application_id, !.env = env]
        byId == application_id # 0
        found == IF byId THEN HasApplication(apps, application_id)
                 ELSE SubmittedOf(apps, u) # {}
        id == IF byId THEN application_id ELSE Max(SubmittedOf(apps, u))
        done == WithdrawApplication(apps, id)
        notice == ChannelPost("withdrawn", <<>>, u, FALSE, <<>>, env.post)
    IN  IF ~found
        THEN Effect(apps, [base EXCEPT !.result = IF byId THEN "NotFound" ELSE "NoSubmitted"])
        ELSE IF apps[id].status = "withdrawn"
        THEN Effect(apps, [base EXCEPT !.result = "AlreadyWithdrawn", !.app = id])
        ELSE IF apps[id].status \in {"accepted", "rejected"}
        THEN Effect(apps, [base EXCEPT !.result = "CannotWithdraw", !.app = id])
        ELSE IF ~done.ok
        THEN Effect(apps, [base EXCEPT !.result = "WithdrawalFailed", !.app = id])
        ELSE Effect(done.apps,
                    [base EXCEPT
                        !.result = "Withdrawn", !.app = id, !.status = "withdrawn",
                        !.posts = IF env.guild /\ channel # NoChannel /\ env.channelPresent
                                  THEN <<notice>> ELSE <<>>])

Withdraw(u, application_id, env) ==
    LET base == [NoOut EXCEPT !.op = "withdraw", !.user = u, !.app = application_id, !.env = env]
        byId == application_id # 0
        found == IF byId THEN HasApplication(apps, application_id)
                 ELSE SubmittedOf(apps, u) # {}
        id == IF byId THEN application_id ELSE Max(SubmittedOf(apps, u))
        done == WithdrawApplication(apps, id)
        notice == ChannelPost("withdrawn", <<>>, u, FALSE, <<>>, env.post)
    IN  IF ~found
        THEN Effect(apps, [base EXCEPT !.result = IF byId THEN "NotFound" ELSE "NoSubmitted"])
        ELSE IF apps[id].user_id # u
        THEN Effect(apps, [base EXCEPT !.result = "PermissionDenied"])
        ELSE IF apps[id].status = "withdrawn"
        THEN Effect(apps, [base EXCEPT !.result = "AlreadyWithdrawn", !.app = id])
        ELSE IF apps[id].status \in {"accepted", "rejected"}
        THEN Effect(apps, [base EXCEPT !.result = "CannotWithdraw", !.app = id])
        ELSE IF ~done.ok
        THEN Effect(apps, [base EXCEPT !.result = "WithdrawalFailed", !.app = id])
        ELSE Effect(done.apps,
                    [base EXCEPT
                        !.result = "Withdrawn", !.app = id, !.status = "withdrawn",
                        !.posts = IF env.guild /\ channel # NoChannel /\ env.channelPresent
                                  THEN <<notice>> ELSE <<>>])

(***************************************************************************)
(* Applications.approve, Applications.reject                               *)
(***************************************************************************)
\* the skipped roles without the hierarchy test
RECURSIVE RolesSkippedMissingOnly(_, _)
RolesSkippedMissingOnly(rids, env) ==
    IF rids = <<>> THEN <<>>
    ELSE LET rid == Head(rids)
             rest == RolesSkippedMissingOnly(Tail(rids), env)
         IN  IF env.role[rid] = "missing" THEN << <<rid, "role_not_found">> >> \o rest
             ELSE rest

\* lines 794-807: the roles that cannot be assigned, each with its reason
RECURSIVE RolesSkipped(_, _)
RolesSkipped(rids, env) ==
    IF rids = <<>> THEN <<>>
    ELSE LET rid == Head(rids)
             rest == RolesSkipped(Tail(rids), env)
         IN  IF env.role[rid] = "missing" THEN << <<rid, "role_not_found">> >> \o rest
             ELSE IF env.role[rid] = "above" THEN << <<rid, "role_above_bot">> >> \o rest
             ELSE rest

\* the roles passed to add_roles without the hierarchy test
RECURSIVE RolesAssignableIgnoresHierarchy(_, _)
RolesAssignableIgnoresHierarchy(rids, env) ==
    IF rids = <<>> THEN <<>>
    ELSE LET rest == RolesAssignableIgnoresHierarchy(Tail(rids), env)
         IN  IF env.role[Head(rids)] # "missing" THEN <<Head(rids)>> \o rest ELSE rest

RECURSIVE RolesAssignable(_, _)
RolesAssignable(rids, env) ==
    IF rids = <<>> THEN <<>>
    ELSE LET rest == RolesAssignable(Tail(rids), env)
         IN  IF env.role[Head(rids)] = "ok" THEN <<Head(rids)>> \o rest ELSE rest

\* lines 785-819: (roles_assigned, roles_failed), and the roles the member
\* has been given when add_roles returns or raises
AssignRoles(roles_to_give, env) ==
    LET skipped == RolesSkipped(roles_to_give, env)
        assignable == RolesAssignable(roles_to_give, env)
        reason == IF env.add = "forbidden" THEN "forbidden" ELSE "failed"
        failing == IF env.failAt > Len(assignable) THEN Len(assignable) ELSE env.failAt
    IN  IF ~(env.member /\ roles_to_give # <<>>)
        THEN [assigned |-> <<>>, failed |-> <<>>, done |-> <<>>]
        ELSE IF assignable = <<>>
        THEN [assigned |-> <<>>, failed |-> skipped, done |-> <<>>]
        ELSE IF env.add = "ok"
        THEN [assigned |-> assignable, failed |-> skipped, done |-> assignable]
        ELSE [assigned |-> <<>>,
              failed |-> skipped \o
                  [i \in 1..Len(assignable) |-> <<assignable[i], reason>>],
              done |-> SubSeq(assignable, 1, failing - 1)]

\* the post to the applications channel made whether the DM was sent or not
NotifyAlwaysPosts(kind, u, msg, env) ==
    [dm |-> <<DirectMessage(u, kind, msg, env.dm)>>,
     posts |-> IF channel # NoChannel /\ env.channelPresent
               THEN <<ChannelPost(kind, <<>>, u, FALSE, msg, env.post)>>
               ELSE <<>>]

\* lines 834-877, 948-985: one DM to the applicant, then, when it was not
\* sent, one post to the applications channel if it is configured and found
Notify(kind, u, msg, env) ==
    [dm |-> <<DirectMessage(u, kind, msg, env.dm)>>,
     posts |-> IF env.dm # "ok" /\ channel # NoChannel /\ env.channelPresent
               THEN <<ChannelPost(kind, <<>>, u, FALSE, msg, env.post)>>
               ELSE <<>>]

\* the status test of approve and reject without 'withdrawn'
AlreadyProcessedDecidedOnly(status) == status \in {"accepted", "rejected"}

\* lines 775, 923: position_name, the "Position" field of the decision
\* embeds: the name of the position, or "ID <position_id>" when it has no row
PositionName(pos, p) ==
    IF HasPosition(pos, p) THEN GetPosition(pos, p).name ELSE <<"ID", p>>

\* lines 760, 910: the statuses approve and reject refuse to touch
AlreadyProcessed(status) == status \in {"accepted", "rejected", "withdrawn"}

\* approve treating a position without a row as an error
ApproveNeedsPosition(application_id, env) ==
    LET base == [NoOut EXCEPT !.op = "approve", !.app = application_id, !.env = env]
        updated == SetApplicationStatus(apps, application_id, "accepted")
    IN  IF ~HasApplication(apps, application_id)
        THEN Effect(apps, [base EXCEPT !.result = "NotFound"])
        ELSE IF AlreadyProcessed(apps[application_id].status)
        THEN Effect(apps, [base EXCEPT !.result = "AlreadyProcessed"])
        ELSE IF ~HasPosition(positions, apps[application_id].position_id)
        THEN Effect(apps, [base EXCEPT !.result = "NotFound"])
        ELSE IF ~updated.ok
        THEN Effect(apps, [base EXCEPT !.result = "FailedToUpdate"])
        ELSE LET app == apps[application_id]
                 roles_to_give == GetPosition(positions, app.position_id).roles_given
                 given == AssignRoles(roles_to_give, env)
                 msg == GetPosition(positions, app.position_id).acceptance_message
                 sent == Notify("accepted", app.user_id, msg, env)
             IN  Effect(updated.apps,
                        [base EXCEPT
                            !.result = "Approved", !.user = app.user_id,
                            !.status = "accepted",
                            !.granted = given.assigned, !.failed = given.failed,
                            !.done = given.done, !.position = app.position_id,
                            !.shown = PositionName(positions, app.position_id),
                            !.text = msg, !.dm = sent.dm, !.posts = sent.posts])

\* approve in one step, for the specifications in which nothing runs
\* between its status write and its side effects
Approve(application_id, env) ==
    LET base == [NoOut EXCEPT !.op = "approve", !.app = application_id, !.env = env]
        updated == SetApplicationStatus(apps, application_id, "accepted")
    IN  IF ~HasApplication(apps, application_id)
        THEN Effect(apps, [base EXCEPT !.result = "NotFound"])
        ELSE IF AlreadyProcessed(apps[application_id].status)
        THEN Effect(apps, [base EXCEPT !.result = "AlreadyProcessed"])
        ELSE IF ~updated.ok
        THEN Effect(apps, [base EXCEPT !.result = "FailedToUpdate"])
        ELSE LET app == apps[application_id]
                 hasPosition == HasPosition(positions, app.position_id)
                 roles_to_give ==
                     IF hasPosition
                     THEN GetPosition(positions, app.position_id).roles_given
                     ELSE <<>>
                 given == AssignRoles(roles_to_give, env)
                 msg == IF hasPosition
                        THEN GetPosition(positions, app.position_id).acceptance_message
                        ELSE <<>>
                 sent == Notify("accepted", app.user_id, msg, env)
             IN  Effect(updated.apps,
                        [base EXCEPT
                            !.result = "Approved", !.user = app.user_id,
                            !.status = "accepted",
                            !.granted = given.assigned, !.failed = given.failed,
                            !.done = given.done, !.position = app.position_id,
                            !.shown = PositionName(positions, app.position_id),
                            !.text = msg, !.dm = sent.dm, !.posts = sent.posts])

\* approve with the status write put off to the end of the handler
ApproveCommitDefersWrite(application_id) ==
    LET base == [NoOut EXCEPT !.op = "approve", !.app = application_id]
    IN  IF ~HasApplication(apps, application_id)
        THEN Effect(apps, [base EXCEPT !.result = "NotFound"])
        ELSE IF AlreadyProcessed(apps[application_id].status)
        THEN Effect(apps, [base EXCEPT !.result = "AlreadyProcessed"])
        ELSE LET app == apps[application_id]
                 hasPosition == HasPosition(positions, app.position_id)
             IN  [Effect(apps,
                         [base EXCEPT !.result = "Committed", !.user = app.user_id,
                                      !.status = "accepted",
                                      !.position = app.position_id])
                  EXCEPT
                     !.enabled = Len(pending) < MaxTasks,
                     !.pending = Append(pending,
                         [kind |-> "approve", app |-> application_id,
                          user |-> app.user_id, position_id |-> app.position_id,
                          name |-> PositionName(positions, app.position_id),
                          roles_to_give |->
                              IF hasPosition
                              THEN GetPosition(positions, app.position_id).roles_given
                              ELSE <<>>,
                          msg |->
                              IF hasPosition
                              THEN GetPosition(positions, app.position_id).acceptance_message
                              ELSE <<>>])]

\* approve up to its first await after the status write (lines 751-783:
\* fetch_member, or add_roles, or the DM): the checks, the write, and the
\* position read into the handler's locals
ApproveCommit(application_id) ==
    LET base == [NoOut EXCEPT !.op = "approve", !.app = application_id]
        updated == SetApplicationStatus(apps, application_id, "accepted")
    IN  IF ~HasApplication(apps, application_id)
        THEN Effect(apps, [base EXCEPT !.result = "NotFound"])
        ELSE IF AlreadyProcessed(apps[application_id].status)
        THEN Effect(apps, [base EXCEPT !.result = "AlreadyProcessed"])
        ELSE IF ~updated.ok
        THEN Effect(apps, [base EXCEPT !.result = "FailedToUpdate"])
        ELSE LET app == apps[application_id]
                 hasPosition == HasPosition(positions, app.position_id)
             IN  [Effect(updated.apps,
                         [base EXCEPT !.result = "Committed", !.user = app.user_id,
                                      !.status = "accepted",
                                      !.position = app.position_id])
                  EXCEPT
                     !.enabled = Len(pending) < MaxTasks,
                     !.pending = Append(pending,
                         [kind |-> "approve", app |-> application_id,
                          user |-> app.user_id, position_id |-> app.position_id,
                          name |-> PositionName(positions, app.position_id),
                          roles_to_give |->
                              IF hasPosition
                              THEN GetPosition(positions, app.position_id).roles_given
                              ELSE <<>>,
                          msg |->
                              IF hasPosition
                              THEN GetPosition(positions, app.position_id).acceptance_message
                              ELSE <<>>])]

\* approve from there on (lines 785-895): the roles, the DM, the post
ApproveEffects(i, env) ==
    IF i \notin 1..Len(pending) \/ pending[i].kind # "approve"
    THEN [Effect(apps, NoOut) EXCEPT !.enabled = FALSE]
    ELSE LET task == pending[i]
             given == AssignRoles(task.roles_to_give, env)
             sent == Notify("accepted", task.user, task.msg, env)
         IN  [Effect(apps,
                     [NoOut EXCEPT
                         !.op = "approve", !.app = task.app, !.env = env,
                         !.result = "Approved", !.user = task.user,
                         !.status = "accepted", !.position = task.position_id,
                         !.granted = given.assigned, !.failed = given.failed,
                         !.done = given.done, !.shown = task.name,
                         !.text = task.msg, !.dm = sent.dm, !.posts = sent.posts])
              EXCEPT !.pending = RemoveAt(pending, i)]

\* reject preferring the configured rejection message to the reason
RejectPrefersConfigured(application_id, reason, env) ==
    LET base == [NoOut EXCEPT !.op = "reject", !.app = application_id, !.env = env,
                              !.reason = reason]
        updated == SetApplicationStatus(apps, application_id, "rejected")
    IN  IF ~HasApplication(apps, application_id)
        THEN Effect(apps, [base EXCEPT !.result = "NotFound"])
        ELSE IF AlreadyProcessed(apps[application_id].status)
        THEN Effect(apps, [base EXCEPT !.result = "AlreadyProcessed"])
        ELSE IF ~updated.ok
        THEN Effect(apps, [base EXCEPT !.result = "FailedToUpdate"])
        ELSE LET app == apps[application_id]
                 hasPosition == HasPosition(positions, app.position_id)
                 rejection_message ==
                     IF hasPosition
                            /\ GetPosition(positions, app.position_id).rejection_message # <<>>
                     THEN GetPosition(positions, app.position_id).rejection_message
                     ELSE reason
                 sent == Notify("rejected", app.user_id, rejection_message, env)
             IN  Effect(updated.apps,
                        [base EXCEPT
                            !.result = "Rejected", !.user = app.user_id,
                            !.status = "rejected", !.text = rejection_message,
                            !.position = app.position_id,
                            !.shown = PositionName(positions, app.position_id),
                            !.dm = sent.dm, !.posts = sent.posts])

\* reason = <<>> stands for the omitted argument (None)
Reject(application_id, reason, env) ==
    LET base == [NoOut EXCEPT !.op = "reject", !.app = application_id, !.env = env,
                              !.reason = reason]
        updated == SetApplicationStatus(apps, application_id, "rejected")
    IN  IF ~HasApplication(apps, application_id)
        THEN Effect(apps, [base EXCEPT !.result = "NotFound"])
        ELSE IF AlreadyProcessed(apps[application_id].status)
        THEN Effect(apps, [base EXCEPT !.result = "AlreadyProcessed"])
        ELSE IF ~updated.ok
        THEN Effect(apps, [base EXCEPT !.result = "FailedToUpdate"])
        ELSE LET app == apps[application_id]
                 hasPosition == HasPosition(positions, app.position_id)
                 rejection_message ==
                     IF reason # <<>> THEN reason
                     ELSE IF hasPosition
                     THEN GetPosition(positions, app.position_id).rejection_message
                     ELSE <<>>
                 sent == Notify("rejected", app.user_id, rejection_message, env)
             IN  Effect(updated.apps,
                        [base EXCEPT
                            !.result = "Rejected", !.user = app.user_id,
                            !.status = "rejected", !.text = rejection_message,
                            !.position = app.position_id,
                            !.shown = PositionName(positions, app.position_id),
                            !.dm = sent.dm, !.posts = sent.posts])

(***************************************************************************)
(* Applications.appstatus, flag_application, unflag_application            *)
(***************************************************************************)
\* status.lower().strip() of the labels a staff member may type
Labels ==
    {"Pending", "Under Review", "under_review", "Accepted", " denied ", "rejected",
     "Withdrawn", "FLAGGED", "On Hold", "on_hold", "submitted", "in_progress", "bogus"}

LabelKey(label) ==
    CASE label = "Pending" -> "pending"
      [] label = "Under Review" -> "under review"
      [] label = "Accepted" -> "accepted"
      [] label = " denied " -> "denied"
      [] label = "Withdrawn" -> "withdrawn"
      [] label = "FLAGGED" -> "flagged"
      [] label = "On Hold" -> "on hold"
      [] OTHER -> label

\* the mapping storing 'denied' as it was typed
StatusMappingDeniedVerbatim(key) ==
    CASE key = "pending" -> "pending"
      [] key = "under review" -> "under_review"
      [] key = "under_review" -> "under_review"
      [] key = "accepted" -> "accepted"
      [] key = "denied" -> "denied"
      [] key = "rejected" -> "rejected"
      [] key = "withdrawn" -> "withdrawn"
      [] key = "flagged" -> "flagged"
      [] key = "on hold" -> "on_hold"
      [] key = "on_hold" -> "on_hold"
      [] OTHER -> "None"

\* lines 1009-1020: mapping.get(key); "None" when the key is not in it
StatusMapping(key) ==
    CASE key = "pending" -> "pending"
      [] key = "under review" -> "under_review"
      [] key = "under_review" -> "under_review"
      [] key = "accepted" -> "accepted"
      [] key = "denied" -> "rejected"
      [] key = "rejected" -> "rejected"
      [] key = "withdrawn" -> "withdrawn"
      [] key = "flagged" -> "flagged"
      [] key = "on hold" -> "on_hold"
      [] key = "on_hold" -> "on_hold"
      [] OTHER -> "None"

\* appstatus posting its notice whatever the new status is
AppStatusAlwaysPosts(application_id, label, env) ==
    LET db_status == StatusMapping(LabelKey(label))
        base == [NoOut EXCEPT !.op = "appstatus", !.app = application_id,
                              !.status = db_status, !.text = <<label>>, !.env = env]
        updated == SetApplicationStatus(apps, application_id, db_status)
        notice == ChannelPost("on_hold", <<>>, 0, FALSE, <<>>, env.post)
    IN  IF db_status = "None"
        THEN Effect(apps, [base EXCEPT !.result = "InvalidStatus"])
        ELSE IF ~HasApplication(apps, application_id)
        THEN Effect(apps, [base EXCEPT !.result = "NotFound"])
        ELSE IF apps[application_id].status = db_status
        THEN Effect(apps, [base EXCEPT !.result = "NoChange"])
        ELSE IF ~updated.ok
        THEN Effect(apps, [base EXCEPT !.result = "UpdateFailed"])
        ELSE Effect(updated.apps,
                    [base EXCEPT
                        !.result = "StatusUpdated",
                        !.posts = IF channel # NoChannel /\ env.channelPresent
                                  THEN <<notice>> ELSE <<>>])

AppStatus(application_id, label, env) ==
    LET db_status == StatusMapping(LabelKey(label))
        base == [NoOut EXCEPT !.op = "appstatus", !.app = application_id,
                              !.status = db_status, !.text = <<label>>, !.env = env]
        updated == SetApplicationStatus(apps, application_id, db_status)
        notice == ChannelPost("on_hold", <<>>, 0, FALSE, <<>>, env.post)
    IN  IF db_status = "None"
        THEN Effect(apps, [base EXCEPT !.result = "InvalidStatus"])
        ELSE IF ~HasApplication(apps, application_id)
        THEN Effect(apps, [base EXCEPT !.result = "NotFound"])
        ELSE IF apps[application_id].status = db_status
        THEN Effect(apps, [base EXCEPT !.result = "NoChange"])
        ELSE IF ~updated.ok
        THEN Effect(apps, [base EXCEPT !.result = "UpdateFailed"])
        ELSE Effect(updated.apps,
                    [base EXCEPT
                        !.result = "StatusUpdated",
                        !.posts = IF db_status = "on_hold" /\ channel # NoChannel
                                     /\ env.channelPresent
                                  THEN <<notice>> ELSE <<>>])

FlagApplication(application_id) ==
    LET base == [NoOut EXCEPT !.op = "flag_app", !.app = application_id]
        updated == SetApplicationStatus(apps, application_id, "flagged")
    IN  IF ~HasApplication(apps, application_id)
        THEN Effect(apps, [base EXCEPT !.result = "NotFound"])
        ELSE IF apps[application_id].status = "flagged"
        THEN Effect(apps, [base EXCEPT !.result = "AlreadyFlagged"])
        ELSE IF ~updated.ok
        THEN Effect(apps, [base EXCEPT !.result = "FailedToUpdate"])
        ELSE Effect(updated.apps, [base EXCEPT !.result = "Flagged", !.status = "flagged"])

\* unflag_application without its test of the stored status
UnflagApplicationAnyStatus(application_id) ==
    LET base == [NoOut EXCEPT !.op = "unflag_app", !.app = application_id]
        updated == SetApplicationStatus(apps, application_id, "submitted")
    IN  IF ~HasApplication(apps, application_id)
        THEN Effect(apps, [base EXCEPT !.result = "NotFound"])
        ELSE IF ~updated.ok
        THEN Effect(apps, [base EXCEPT !.result = "FailedToUpdate"])
        ELSE Effect(updated.apps,
                    [base EXCEPT !.result = "Unflagged", !.status = "submitted"])

UnflagApplication(application_id) ==
    LET base == [NoOut EXCEPT !.op = "unflag_app", !.app = application_id]
        updated == SetApplicationStatus(apps, application_id, "submitted")
    IN  IF ~HasApplication(apps, application_id)
        THEN Effect(apps, [base EXCEPT !.result = "NotFound"])
        ELSE IF apps[application_id].status # "flagged"
        THEN Effect(apps, [base EXCEPT !.result = "NotFlagged"])
        ELSE IF ~updated.ok
        THEN Effect(apps, [base EXCEPT !.result = "FailedToUpdate"])
        ELSE Effect(updated.apps,
                    [base EXCEPT !.result = "Unflagged", !.status = "submitted"])

(***************************************************************************)
(* A segment of a handler as a step of the program.  Handle records what   *)
(* the handler did towards the outside in out; Quietly runs the same       *)
(* segment with out left blank, for the specifications that look at the    *)
(* tables only.                                                            *)
(***************************************************************************)
Handle(effect) ==
    /\ effect.enabled
    /\ apps' = effect.apps
    /\ nextId' = effect.nextId
    /\ pending' = effect.pending
    /\ out' = effect.out
    /\ UNCHANGED <<mod, positions, flags, blacklist, channel, now>>

Quietly(effect) ==
    /\ effect.enabled
    /\ apps' = effect.apps
    /\ nextId' = effect.nextId
    /\ pending' = effect.pending
    /\ out' = NoOut
    /\ UNCHANGED <<mod, positions, flags, blacklist, channel, now>>

(***************************************************************************)
(* Applications.flag_user, unflag_user, blacklist_user, unblacklist_user   *)
(***************************************************************************)
\* guild_id = ctx.guild.id, or None when the command is used outside a guild
FlagUser(u, guild_id) ==
    /\ flags' = [v \in DOMAIN flags \cup {u} |-> IF v = u THEN guild_id ELSE flags[v]]
    /\ out' = [NoOut EXCEPT !.op = "flag", !.user = u, !.result = "UserFlagged"]
    /\ UNCHANGED <<mod, positions, apps, nextId, blacklist, channel, now, pending>>

UnflagUser(u) ==
    /\ flags' = [v \in DOMAIN flags \ {u} |-> flags[v]]
    /\ out' = [NoOut EXCEPT !.op = "unflag", !.user = u,
                            !.result = IF u \in DOMAIN flags THEN "UserUnflagged"
                                       ELSE "NotFlagged"]
    /\ UNCHANGED <<mod, positions, apps, nextId, blacklist, channel, now, pending>>

BlacklistUser(u) ==
    /\ blacklist' = blacklist \cup {u}
    /\ out' = [NoOut EXCEPT !.op = "blacklist", !.user = u, !.result = "UserBlacklisted"]
    /\ UNCHANGED <<mod, positions, apps, nextId, flags, channel, now, pending>>

UnblacklistUser(u) ==
    /\ blacklist' = blacklist \ {u}
    /\ out' = [NoOut EXCEPT !.op = "unblacklist", !.user = u,
                            !.result = IF u \in blacklist THEN "UserUnblacklisted"
                                       ELSE "NotBlacklisted"]
    /\ UNCHANGED <<mod, positions, apps, nextId, flags, channel, now, pending>>

(***************************************************************************)
(* ApplicationsDatabase.modify, Applications.add_question, remove_question *)
(***************************************************************************)
\* modify(position_id, 'questions', value): the positions table after it (an
\* UPDATE of a position_id without a row changes nothing)
ModifyQuestions(pos, p, value) ==
    IF p \in DOMAIN pos THEN [pos EXCEPT ![p].questions = EncodeQuestions(value)]
    ELSE pos

\* modify(position_id, 'roles_given', value)
ModifyRoles(pos, p, value) ==
    IF p \in DOMAIN pos THEN [pos EXCEPT ![p].roles_given = EncodeRoles(value)]
    ELSE pos

\* modify called with a list of questions; out.value is the list
ModifyQuestionsCall(p, value) ==
    /\ positions' = ModifyQuestions(positions, p, value)
    /\ out' = [NoOut EXCEPT !.op = "modify_questions", !.position = p,
                            !.value = value, !.result = "None"]
    /\ UNCHANGED <<mod, apps, nextId, flags, blacklist, channel, now, pending>>

\* modify called with a list of role ids
ModifyRolesCall(p, value) ==
    /\ positions' = ModifyRoles(positions, p, value)
    /\ out' = [NoOut EXCEPT !.op = "modify_roles", !.position = p,
                            !.value = value, !.result = "None"]
    /\ UNCHANGED <<mod, apps, nextId, flags, blacklist, channel, now, pending>>

\* add_question: get_position, append, modify
AddQuestion(p, question) ==
    /\ HasPosition(positions, p) => Len(GetPosition(positions, p).questions) < MaxQuestions
    /\ positions' =
          IF ~HasPosition(positions, p) THEN positions
          ELSE ModifyQuestions(positions, p,
                               Append(GetPosition(positions, p).questions, question))
    /\ out' = [NoOut EXCEPT !.op = "add_question", !.position = p, !.text = question,
                            !.result = IF HasPosition(positions, p) THEN "QuestionAdded"
                                       ELSE "NotFound"]
    /\ UNCHANGED <<mod, apps, nextId, flags, blacklist, channel, now, pending>>

\* remove_question, question_index 1-based
RemoveQuestion(p, question_index) ==
    LET questions == GetPosition(positions, p).questions
        valid == HasPosition(positions, p)
                    /\ question_index >= 1 /\ question_index <= Len(questions)
    IN  /\ positions' =
              IF valid THEN ModifyQuestions(positions, p, RemoveAt(questions, question_index))
              ELSE positions
        /\ out' = [NoOut EXCEPT
                      !.op = "remove_question", !.position = p,
                      !.result = IF ~HasPosition(positions, p) THEN "NotFound"
                                 ELSE IF valid THEN "QuestionRemoved"
                                 ELSE "InvalidQuestionIndex",
                      !.text = IF valid THEN questions[question_index] ELSE <<>>]
        /\ UNCHANGED <<mod, apps, nextId, flags, blacklist, channel, now, pending>>

(***************************************************************************)
(* Applications.delete                                                     *)
(***************************************************************************)
\* delete taking the applications for the position with it
DeletePositionCascades(p) ==
    /\ positions' = [q \in DOMAIN positions \ {p} |-> positions[q]]
    /\ apps' = [i \in {j \in DOMAIN apps : apps[j].position_id # p} |-> apps[i]]
    /\ out' = [NoOut EXCEPT !.op = "delete", !.position = p,
                            !.result = IF HasPosition(positions, p) THEN "Deleted"
                                       ELSE "NotFound"]
    /\ UNCHANGED <<mod, nextId, flags, blacklist, channel, now, pending>>

\* delete: get_position, then remove_position
DeletePosition(p) ==
    /\ positions' = [q \in DOMAIN positions \ {p} |-> positions[q]]
    /\ out' = [NoOut EXCEPT !.op = "delete", !.position = p,
                            !.result = IF HasPosition(positions, p) THEN "Deleted"
                                       ELSE "NotFound"]
    /\ UNCHANGED <<mod, apps, nextId, flags, blacklist, channel, now, pending>>

(***************************************************************************)
(* ApplicationsDatabase.set_position_open, Applications.close_position     *)
(***************************************************************************)
\* UPDATE positions SET open = ? WHERE position_id = ?
SetPositionOpen(pos, p, open) ==
    IF p \in DOMAIN pos THEN [pos EXCEPT ![p].open = open] ELSE pos

\* close: get_position, then set_position_open(position_id, False)
ClosePosition(p) ==
    /\ positions' = IF HasPosition(positions, p) THEN SetPositionOpen(positions, p, FALSE)
                    ELSE positions
    /\ out' = [NoOut EXCEPT !.op = "close", !.position = p,
                            !.result = IF HasPosition(positions, p) THEN "Closed"
                                       ELSE "NotFound"]
    /\ UNCHANGED <<mod, apps, nextId, flags, blacklist, channel, now, pending>>

(***************************************************************************)
(* The clock.                                                              *)
(***************************************************************************)
Tick ==
    /\ now + TickHours <= MaxTicks * TickHours
    /\ now' = now + TickHours
    /\ out' = NoOut
    /\ UNCHANGED <<mod, positions, apps, nextId, flags, blacklist, channel, pending>>

(***************************************************************************)
(* What staff and the outside bring to the handlers.                       *)
(***************************************************************************)
\* what staff created with /appsmanage create, add_question, set_roles, ...:
\* position 1 is open and has two questions and two outcome roles, position 2
\* is closed and was left with its defaults, position 3 does not exist
Catalog ==
    [p \in {1, 2} |->
        IF p = 1
        THEN [NewPositionRow(<<"moderator">>) EXCEPT
                 !.questions = EncodeQuestions(<< <<"Why?">>, <<"When?">> >>),
                 !.roles_given = EncodeRoles(<<10, 20>>),
                 !.acceptance_message = <<"welcome">>,
                 !.rejection_message = <<"sorry">>]
        ELSE [NewPositionRow(<<"helper">>) EXCEPT !.open = FALSE]]

\* direct messages of an applicant
PlainMessage == [content |-> <<"a">>, attachments |-> <<>>]
Messages == {PlainMessage, [content |-> <<>>, attachments |-> <<"url">>]}

\* ... when the direct message may be refused or fail; then the applications
\* channel may have been deleted from the guild, and the post to it may fail
NotifyEnvs ==
    {Calm,
     [Calm EXCEPT !.dm = "forbidden"],
     [Calm EXCEPT !.dm = "error"],
     [Calm EXCEPT !.dm = "forbidden", !.post = "error"],
     [Calm EXCEPT !.dm = "forbidden", !.channelPresent = FALSE]}

Reasons == {<<>>, <<"bad", " ", "fit">>}

\* reject with a reason under every answer of the outside, and without one
\* when nothing goes wrong
RejectInputs == ((Reasons \ {<<>>}) \X NotifyEnvs) \cup {<< <<>>, Calm >>}

AppIds == 1..MaxApps

(***************************************************************************)
(* Spec: the applications table under every handler that writes it.        *)
(***************************************************************************)
Init ==
    /\ positions = Catalog
    /\ apps = <<>>
    /\ nextId = 1
    /\ flags = <<>>
    /\ blacklist = {}
    /\ channel = Chan
    /\ now = 0
    /\ pending = <<>>
    /\ out = NoOut
    /\ mod = NoModeration

Next ==
    \/ \E u \in Users, p \in PosIds, send \in Outcomes : Quietly(ApplyBegin(u, p, send))
    \/ \E i \in 1..MaxTasks : Quietly(ApplyFinish(i))
    \/ \E u \in Users : Quietly(OnMessage(u, PlainMessage, Calm))
    \/ \E u \in Users, id \in AppIds \cup {0} : Quietly(Withdraw(u, id, Calm))
    \/ \E id \in AppIds : Quietly(Approve(id, Calm))
    \/ \E id \in AppIds : Quietly(Reject(id, <<>>, Calm))
    \/ \E id \in AppIds : Quietly(FlagApplication(id))
    \/ \E id \in AppIds : Quietly(UnflagApplication(id))
    \/ \E id \in AppIds, l \in Labels : Quietly(AppStatus(id, l, Calm))

Spec == Init /\ [][Next]_vars

(***************************************************************************)
(* SpecIntake: apply and on_message, watched, with the clock running and   *)
(* staff blacklisting and unblacklisting users.                            *)
(***************************************************************************)
\* the user who applies here; the other user is the bystander
Applicants == {101}

NextIntake ==
    \/ \E u \in Applicants, p \in PosIds, send \in Outcomes :
          Handle(ApplyBegin(u, p, send))
    \/ \E i \in 1..MaxTasks : Handle(ApplyFinish(i))
    \/ \E u \in Applicants, m \in Messages : Handle(OnMessage(u, m, Calm))
    \/ \E u \in Applicants : BlacklistUser(u)
    \/ \E u \in Applicants : UnblacklistUser(u)
    \/ Tick

SpecIntake == Init /\ [][NextIntake]_vars

(***************************************************************************)
(* SpecReview: the decisions of staff, watched, on applications that came  *)
(* in unwatched; the applications channel is configured or not.            *)
(***************************************************************************)
InitReview ==
    /\ positions = Catalog
    /\ apps = <<>>
    /\ nextId = 1
    /\ flags = <<>>
    /\ blacklist = {}
    /\ channel \in {NoChannel, Chan}
    /\ now = 0
    /\ pending = <<>>
    /\ out = NoOut
    /\ mod = NoModeration

NextReview ==
    \/ \E u \in Applicants : Quietly(ApplyBegin(u, 1, "ok"))
    \/ \E i \in 1..MaxTasks : Quietly(ApplyFinish(i))
    \/ \E u \in Applicants : Quietly(OnMessage(u, PlainMessage, Calm))
    \/ \E u \in Applicants, id \in AppIds : Quietly(Withdraw(u, id, Calm))
    \/ \E id \in AppIds : Quietly(FlagApplication(id))
    \/ \E id \in AppIds : Quietly(UnflagApplication(id))
    \/ \E id \in AppIds, env \in NotifyEnvs : Handle(Approve(id, env))
    \/ \E id \in AppIds, given \in RejectInputs : Handle(Reject(id, given[1], given[2]))

SpecReview == InitReview /\ [][NextReview]_vars

(***************************************************************************)
(* SpecStore: the methods of ApplicationsDatabase that write the           *)
(* applications table, called directly and in any order, with the clock    *)
(* running; out holds the call and what it returned.                       *)
(***************************************************************************)
Truth(b) == IF b THEN "True" ELSE "False"

\* start_application(user_id, position_id) -> the new application_id
StartCall(u, p) ==
    [Effect(StartApplication(apps, nextId, u, p, now),
            [NoOut EXCEPT !.op = "start_application", !.user = u, !.app = nextId,
                          !.result = "id"])
     EXCEPT !.enabled = nextId <= MaxApps, !.nextId = nextId + 1]

\* submit_application(user_id, answers) -> (application_id, position_id) or
\* (False, reason)
SubmitCall(u, answers) ==
    LET r == SubmitApplication(apps, u, answers, now)
    IN  Effect(r.apps,
               [NoOut EXCEPT !.op = "submit_application", !.user = u, !.app = r.id,
                             !.text = answers,
                             !.result = IF r.ok THEN "ids" ELSE r.reason])

\* set_application_status(application_id, status) -> bool
SetStatusCall(id, status) ==
    LET r == SetApplicationStatus(apps, id, status)
    IN  Effect(r.apps,
               [NoOut EXCEPT !.op = "set_application_status", !.app = id,
                             !.status = status, !.result = Truth(r.ok)])

\* withdraw_application(application_id) -> bool
WithdrawCall(id) ==
    LET r == WithdrawApplication(apps, id)
    IN  Effect(r.apps,
               [NoOut EXCEPT !.op = "withdraw_application", !.app = id,
                             !.result = Truth(r.ok)])

\* the statuses the callers of set_application_status pass to it
StoreStatuses == {"submitted", "accepted", "flagged"}

NextStore ==
    \/ \E u \in Applicants : Handle(StartCall(u, 1))
    \/ \E u \in Applicants : Handle(SubmitCall(u, PlainMessage.content))
    \/ \E id \in AppIds, status \in StoreStatuses : Handle(SetStatusCall(id, status))
    \/ \E id \in AppIds : Handle(WithdrawCall(id))
    \/ Tick

SpecStore == Init /\ [][NextStore]_vars

(***************************************************************************)
(* SpecHook: the completion hook of on_message, watched, while staff flag  *)
(* and unflag the applicant and the roles mapped to manage_applications    *)
(* and the roles of the guild vary.                                        *)
(***************************************************************************)
\* what data/roleperms.json maps manage_applications to: role ids as
\* strings, and whatever else someone wrote into the file
PermRoleLists ==
    { <<>>,
      << <<"10">> >>,
      << <<"20">>, <<" ", "10">> >>,
      << <<"x">>, <<"20">> >> }

HookEnvs ==
    {[Calm EXCEPT !.permRoles = pr, !.guildRoles = gr, !.send1 = s1] :
        pr \in PermRoleLists, gr \in SUBSET Roles, s1 \in {"ok", "error"}}

NextHook ==
    \/ \E u \in Applicants : Quietly(ApplyBegin(u, 1, "ok"))
    \/ \E i \in 1..MaxTasks : Quietly(ApplyFinish(i))
    \/ \E u \in Applicants, env \in HookEnvs : Handle(OnMessage(u, PlainMessage, env))
    \/ \E u \in Applicants, g \in {Null, Guild, OtherGuild} : FlagUser(u, g)
    \/ \E u \in Applicants : UnflagUser(u)

SpecHook == Init /\ [][NextHook]_vars

(***************************************************************************)
(* SpecApprove: approve in its two segments, watched, on applications that *)
(* came in unwatched, while the roles of the guild, the membership of the  *)
(* applicant and the delivery of requests and messages vary.               *)
(***************************************************************************)
RoleStates == [Roles -> {"ok", "missing", "above"}]

GrantEnvs ==
    {[Calm EXCEPT !.role = rs] : rs \in RoleStates}
    \cup {[Calm EXCEPT !.role = rs, !.add = "forbidden", !.failAt = k] :
             rs \in {AllRolesOk, [AllRolesOk EXCEPT ![10] = "missing"]},
             k \in 1..Cardinality(Roles)}
    \cup {[Calm EXCEPT !.add = "error", !.failAt = Cardinality(Roles)],
          [Calm EXCEPT !.member = FALSE],
          [Calm EXCEPT !.dm = "forbidden"],
          [Calm EXCEPT !.dm = "forbidden", !.post = "error"]}

NextApprove ==
    \/ \E u \in Applicants : Quietly(ApplyBegin(u, 1, "ok"))
    \/ \E i \in 1..MaxTasks : Quietly(ApplyFinish(i))
    \/ \E u \in Applicants : Quietly(OnMessage(u, PlainMessage, Calm))
    \/ \E id \in AppIds : Handle(ApproveCommit(id))
    \/ \E i \in 1..MaxTasks, env \in GrantEnvs : Handle(ApproveEffects(i, env))

SpecApprove == Init /\ [][NextApprove]_vars

(***************************************************************************)
(* SpecReject: reject, with and without a reason, and approve, watched,    *)
(* for a position with and without a rejection message, which staff may    *)
(* delete.                                                                 *)
(***************************************************************************)
\* the catalog before staff used set_rejection_message on position 1
CatalogNoRejection == [Catalog EXCEPT ![1].rejection_message = <<>>]

InitReject ==
    /\ positions \in {Catalog, CatalogNoRejection}
    /\ apps = <<>>
    /\ nextId = 1
    /\ flags = <<>>
    /\ blacklist = {}
    /\ channel = Chan
    /\ now = 0
    /\ pending = <<>>
    /\ out = NoOut
    /\ mod = NoModeration

NextReject ==
    \/ \E u \in Applicants : Quietly(ApplyBegin(u, 1, "ok"))
    \/ \E i \in 1..MaxTasks : Quietly(ApplyFinish(i))
    \/ \E u \in Applicants : Quietly(OnMessage(u, PlainMessage, Calm))
    \/ \E p \in PosIds : DeletePosition(p)
    \/ \E id \in AppIds, r \in Reasons, env \in {Calm, [Calm EXCEPT !.dm = "forbidden"]} :
          Handle(Reject(id, r, env))
    \/ \E id \in AppIds, env \in {Calm, [Calm EXCEPT !.dm = "forbidden"]} :
          Handle(Approve(id, env))

SpecReject == InitReject /\ [][NextReject]_vars

(***************************************************************************)
(* SpecStart: apply of two users, its second segment watched, with the     *)
(* clock running and both users answering.                                 *)
(***************************************************************************)
NextStart ==
    \/ \E u \in Users : Quietly(ApplyBegin(u, 1, "ok"))
    \/ \E i \in 1..MaxTasks : Handle(ApplyFinish(i))
    \/ \E u \in Users : Quietly(OnMessage(u, PlainMessage, Calm))
    \/ Tick

SpecStart == Init /\ [][NextStart]_vars

(***************************************************************************)
(* SpecRoute: the completion hook of on_message, watched, under everything *)
(* that can go wrong in it; the applications channel is configured or not, *)
(* the applicant is flagged or not.                                        *)
(***************************************************************************)
RouteEnvs ==
    {Calm,
     [Calm EXCEPT !.guild = FALSE],
     [Calm EXCEPT !.channelPresent = FALSE],
     [Calm EXCEPT !.send1 = "error"],
     [Calm EXCEPT !.send2 = "forbidden"],
     [Calm EXCEPT !.send2 = "error"],
     [Calm EXCEPT !.confirm = "forbidden"],
     [Calm EXCEPT !.confirm = "error"]}

NextRoute ==
    \/ \E u \in Applicants : Quietly(ApplyBegin(u, 1, "ok"))
    \/ \E i \in 1..MaxTasks : Quietly(ApplyFinish(i))
    \/ \E u \in Applicants, env \in RouteEnvs : Handle(OnMessage(u, PlainMessage, env))
    \/ \E u \in Applicants : FlagUser(u, Guild)
    \/ \E u \in Applicants : UnflagUser(u)
    \/ Tick

SpecRoute == InitReview /\ [][NextRoute]_vars

(***************************************************************************)
(* SpecLabel: appstatus, watched, on applications that came in and were    *)
(* rejected unwatched; the applications channel is configured or not.      *)
(***************************************************************************)
\* a label for a status no handler sets, two labels for one status, a label
\* whose status is posted to the channel, a status name that is no label,
\* and a word that is neither
TypedLabels == {"Pending", " denied ", "rejected", "On Hold", "submitted", "bogus"}

\* ... when the applications channel may have been deleted from the guild,
\* and the post to it may fail
LabelEnvs ==
    {Calm, [Calm EXCEPT !.channelPresent = FALSE], [Calm EXCEPT !.post = "error"]}

NextLabel ==
    \/ \E u \in Applicants : Quietly(ApplyBegin(u, 1, "ok"))
    \/ \E i \in 1..MaxTasks : Quietly(ApplyFinish(i))
    \/ \E u \in Applicants : Quietly(OnMessage(u, PlainMessage, Calm))
    \/ \E id \in AppIds : Quietly(Reject(id, <<>>, Calm))
    \/ \E id \in AppIds, l \in TypedLabels, env \in LabelEnvs :
          Handle(AppStatus(id, l, env))

SpecLabel == InitReview /\ [][NextLabel]_vars

(***************************************************************************)
(* SpecFlag: flag_app and unflag_app, watched, on applications that are    *)
(* being filled in, were submitted, relabelled or rejected unwatched.      *)
(***************************************************************************)
NextFlag ==
    \/ \E u \in Applicants : Quietly(ApplyBegin(u, 1, "ok"))
    \/ \E i \in 1..MaxTasks : Quietly(ApplyFinish(i))
    \/ \E u \in Applicants : Quietly(OnMessage(u, PlainMessage, Calm))
    \/ \E id \in AppIds : Quietly(AppStatus(id, "Pending", Calm))
    \/ \E id \in AppIds : Quietly(Reject(id, <<>>, Calm))
    \/ \E id \in AppIds : Handle(FlagApplication(id))
    \/ \E id \in AppIds : Handle(UnflagApplication(id))

SpecFlag == Init /\ [][NextFlag]_vars

(***************************************************************************)
(* SpecWithdraw: withdraw with an application id, watched, used by the     *)
(* applicant and by another user, on applications that came in and were    *)
(* decided unwatched.                                                      *)
(***************************************************************************)
NextWithdraw ==
    \/ \E u \in Applicants : Quietly(ApplyBegin(u, 1, "ok"))
    \/ \E i \in 1..MaxTasks : Quietly(ApplyFinish(i))
    \/ \E u \in Applicants : Quietly(OnMessage(u, PlainMessage, Calm))
    \/ \E id \in AppIds : Quietly(Approve(id, Calm))
    \/ \E id \in AppIds : Quietly(Reject(id, <<>>, Calm))
    \/ \E u \in Users, id \in AppIds : Handle(Withdraw(u, id, Calm))

SpecWithdraw == Init /\ [][NextWithdraw]_vars

(***************************************************************************)
(* SpecAnswer: on_message of two users, watched, who apply unwatched, with *)
(* the clock running.                                                      *)
(***************************************************************************)
NextAnswer ==
    \/ \E u \in Users : Quietly(ApplyBegin(u, 1, "ok"))
    \/ \E i \in 1..MaxTasks : Quietly(ApplyFinish(i))
    \/ \E u \in Users : Handle(OnMessage(u, PlainMessage, Calm))
    \/ Tick

SpecAnswer == Init /\ [][NextAnswer]_vars

(***************************************************************************)
(* SpecCatalog: the questions and the outcome roles of the positions,      *)
(* written by add_question, remove_question and modify and read back.      *)
(***************************************************************************)
\* the questions staff type: a plain one, and one with a line break in it
QuestionTexts == { <<"Why?">>, <<"a", "\n", "b">> }

\* the lists modify is called with: plain ones, one with an empty question
QuestionLists ==
    { <<>>, << <<"When?">> >>, << <<"When?">>, <<"Why?">> >>, << <<>>, <<"Why?">> >> }

RoleLists == { <<>>, <<10>>, <<20, 10>> }

\* position 1, and position 3, which has no row
CatalogIds == {1, 3}

NextCatalog ==
    \/ \E p \in CatalogIds, q \in QuestionTexts : AddQuestion(p, q)
    \/ \E p \in CatalogIds, i \in 0..MaxQuestions : RemoveQuestion(p, i)
    \/ \E p \in CatalogIds, qs \in QuestionLists : ModifyQuestionsCall(p, qs)
    \/ \E p \in CatalogIds, ids \in RoleLists : ModifyRolesCall(p, ids)

SpecCatalog == Init /\ [][NextCatalog]_vars

(***************************************************************************)
(* SpecFlags: the flag table, written by flag_user and unflag_user for two *)
(* users and read by is_user_flagged with and without a guild id; out      *)
(* holds the call and what it returned.                                    *)
(***************************************************************************)
Scopes == {Null, Guild, OtherGuild}

\* is_user_flagged(user_id, guild_id) -> bool; out.value is the guild_id
IsFlaggedCall(u, g) ==
    /\ out' = [NoOut EXCEPT !.op = "is_user_flagged", !.user = u, !.value = g,
                            !.result = Truth(IsUserFlagged(flags, u, g))]
    /\ UNCHANGED <<mod, positions, apps, nextId, flags, blacklist, channel, now, pending>>

NextFlags ==
    \/ \E u \in Users, g \in Scopes : FlagUser(u, g)
    \/ \E u \in Users : UnflagUser(u)
    \/ \E u \in Users, g \in Scopes : IsFlaggedCall(u, g)

SpecFlags == Init /\ [][NextFlags]_vars

(***************************************************************************)
(* SpecRace: apply and on_message of one user, watched, with one more      *)
(* apply suspended in its direct message than elsewhere, so that two       *)
(* starts of the user overlap and resume in either order; the clock runs.  *)
(***************************************************************************)
NextRace ==
    \/ \E u \in Applicants :
          Handle([ApplyBegin(u, 1, "ok") EXCEPT !.enabled = Len(pending) <= MaxTasks])
    \/ \E i \in 1..(MaxTasks + 1) : Handle(ApplyFinish(i))
    \/ \E u \in Applicants : Handle(OnMessage(u, PlainMessage, Calm))
    \/ Tick

SpecRace == Init /\ [][NextRace]_vars

(***************************************************************************)
(* SpecSuspend: apply, watched, while staff blacklist the applicant and    *)
(* close and delete positions, also between the two segments of apply.     *)
(***************************************************************************)
NextSuspend ==
    \/ \E u \in Applicants, p \in PosIds : Handle(ApplyBegin(u, p, "ok"))
    \/ \E i \in 1..MaxTasks : Handle(ApplyFinish(i))
    \/ \E u \in Applicants : BlacklistUser(u)
    \/ \E u \in Applicants : UnblacklistUser(u)
    \/ \E p \in PosIds : ClosePosition(p)
    \/ \E p \in PosIds : DeletePosition(p)

SpecSuspend == Init /\ [][NextSuspend]_vars

(***************************************************************************)
(* SpecDecide: approve in its two segments, reject and withdraw, watched,  *)
(* for the same applications, so that reject, withdraw and further calls   *)
(* of approve run while an approve is suspended after its write.           *)
(***************************************************************************)
NextDecide ==
    \/ \E u \in Applicants : Quietly(ApplyBegin(u, 1, "ok"))
    \/ \E i \in 1..MaxTasks : Quietly(ApplyFinish(i))
    \/ \E u \in Applicants : Quietly(OnMessage(u, PlainMessage, Calm))
    \/ \E id \in AppIds : Handle(ApproveCommit(id))
    \/ \E i \in 1..MaxTasks, env \in {Calm, [Calm EXCEPT !.dm = "forbidden"]} :
          Handle(ApproveEffects(i, env))
    \/ \E id \in AppIds : Handle(Reject(id, <<>>, Calm))
    \/ \E u \in Applicants, id \in AppIds : Handle(Withdraw(u, id, Calm))

SpecDecide == Init /\ [][NextDecide]_vars

(***************************************************************************)
(* SpecOwner: withdraw with an application id and without one (id 0),      *)
(* watched, used by two users on their own and on each other's             *)
(* applications, which came in and were decided unwatched.                 *)
(***************************************************************************)
NextOwner ==
    \/ \E u \in Users : Quietly(ApplyBegin(u, 1, "ok"))
    \/ \E i \in 1..MaxTasks : Quietly(ApplyFinish(i))
    \/ \E u \in Users : Quietly(OnMessage(u, PlainMessage, Calm))
    \/ \E id \in AppIds : Quietly(Approve(id, Calm))
    \/ \E u \in Users, id \in AppIds \cup {0} : Handle(Withdraw(u, id, Calm))

SpecOwner == Init /\ [][NextOwner]_vars

(***************************************************************************)
(* ModerationDatabase.add_mute_timer, remove_mute_timer                    *)
(***************************************************************************)
\* INSERT INTO mute_timers (user_id, guild_id, unmute_at, ...): one more row
AddMuteTimer(rows, key) == [rows EXCEPT ![key] = @ + 1]

\* DELETE FROM mute_timers WHERE user_id = ? AND guild_id = ?
RemoveMuteTimer(rows, key) == [rows EXCEPT ![key] = 0]

(***************************************************************************)
(* Moderation._schedule_unmute_task, mute, unmute, _perform_unmute         *)
(*                                                                         *)
(* A task is sleeping in asyncio.sleep, removing while it awaits           *)
(* member.remove_roles in _perform_unmute, done when it returned, and      *)
(* cancelled once cancel() was called on it before that: CancelledError    *)
(* is raised at its await and _task returns.  The delay of a task is left  *)
(* open: a sleeping task may wake at any time.  The muted role is          *)
(* configured and exists in the guild.                                     *)
(***************************************************************************)
\* `if existing and not existing.done(): existing.cancel()`, id 0: None
CancelTask(tasks, id) ==
    IF id # 0 /\ tasks[id].state \in {"sleeping", "removing"}
    THEN [tasks EXCEPT ![id].state = "cancelled"]
    ELSE tasks

\* _schedule_unmute_task that leaves the existing task running
ScheduleUnmuteTaskKeepsExisting(m, key) ==
    [m EXCEPT !.tasks = Append(m.tasks, [key |-> key, state |-> "sleeping"]),
              !.registry[key] = Len(m.tasks) + 1]

\* _schedule_unmute_task: pop and cancel the task of the key, create the
\* new task and store it under the key
ScheduleUnmuteTask(m, key) ==
    [m EXCEPT !.tasks = Append(CancelTask(m.tasks, m.registry[key]),
                               [key |-> key, state |-> "sleeping"]),
              !.registry[key] = Len(m.tasks) + 1]

\* a step of the Moderation cog leaves the applications cog as it is
Moderate(m, o) ==
    /\ mod' = m
    /\ out' = o
    /\ UNCHANGED <<positions, apps, nextId, flags, blacklist, channel, now, pending>>

\* mute up to `await member.add_roles(muted_role)`: timed says whether a
\* duration that parses was given, add is what add_roles answers; at most
\* MaxTasks + 1 handlers are suspended at a time
MuteBegin(key, timed, add) ==
    LET h == [kind |-> "mute", key |-> key, timed |-> timed]
        base == [NoOut EXCEPT !.op = "mute", !.user = key[2]]
    IN  /\ h \notin mod.handlers
        /\ Cardinality(mod.handlers) <= MaxTasks
        /\ IF add = "ok"
           THEN Moderate([mod EXCEPT !.muted = @ \cup {key}, !.handlers = @ \cup {h}],
                         [base EXCEPT !.result = "RoleAdded"])
           ELSE Moderate(mod, [base EXCEPT !.result = "MuteFailed"])

\* mute from there on: add_mute_timer and _schedule_unmute_task when a
\* duration was given; out.app is the task created
MuteResume(h) ==
    LET base == [NoOut EXCEPT !.op = "mute", !.user = h.key[2]]
        left == [mod EXCEPT !.handlers = @ \ {h}]
    IN  /\ h \in mod.handlers /\ h.kind = "mute"
        /\ IF h.timed
           THEN /\ Len(mod.tasks) < MaxTimers
                /\ Moderate(ScheduleUnmuteTask(
                               [left EXCEPT !.rows = AddMuteTimer(@, h.key)], h.key),
                            [base EXCEPT !.result = "Scheduled",
                                         !.app = Len(mod.tasks) + 1])
           ELSE Moderate(left, [base EXCEPT !.result = "Muted"])

\* unmute up to `await member.remove_roles(muted_role)`
UnmuteBegin(key, remove) ==
    LET h == [kind |-> "unmute", key |-> key, timed |-> FALSE]
        base == [NoOut EXCEPT !.op = "unmute", !.user = key[2]]
    IN  /\ h \notin mod.handlers
        /\ Cardinality(mod.handlers) <= MaxTasks
        /\ IF remove = "ok"
           THEN Moderate([mod EXCEPT !.muted = @ \ {key}, !.handlers = @ \cup {h}],
                         [base EXCEPT !.result = "RoleRemoved"])
           ELSE Moderate(mod, [base EXCEPT !.result = "UnmuteFailed"])

\* unmute from there on: remove_mute_timer, then pop and cancel the task of
\* the key; out.app is the task that was stored under the key
UnmuteResume(h) ==
    LET base == [NoOut EXCEPT !.op = "unmute", !.user = h.key[2]]
    IN  /\ h \in mod.handlers /\ h.kind = "unmute"
        /\ Moderate([mod EXCEPT !.handlers = @ \ {h},
                                !.rows = RemoveMuteTimer(@, h.key),
                                !.tasks = CancelTask(@, mod.registry[h.key]),
                                !.registry[h.key] = 0],
                    [base EXCEPT !.result = "Unmuted", !.app = mod.registry[h.key]])

\* _task after its sleep, up to `await member.remove_roles` in
\* _perform_unmute; present says whether the member is still in the guild
TimerWake(id, present) ==
    LET base == [NoOut EXCEPT !.op = "timer", !.app = id]
    IN  /\ id \in 1..Len(mod.tasks)
        /\ mod.tasks[id].state = "sleeping"
        /\ IF present
           THEN Moderate([mod EXCEPT !.muted = @ \ {mod.tasks[id].key},
                                     !.tasks[id].state = "removing"],
                         [base EXCEPT !.user = mod.tasks[id].key[2],
                                      !.result = "RoleRemoved"])
           ELSE Moderate([mod EXCEPT !.tasks[id].state = "done"],
                         [base EXCEPT !.user = mod.tasks[id].key[2],
                                      !.result = "MemberGone"])

\* _perform_unmute from there on: remove_mute_timer
TimerFinish(id) ==
    /\ id \in 1..Len(mod.tasks)
    /\ mod.tasks[id].state = "removing"
    /\ Moderate([mod EXCEPT !.rows = RemoveMuteTimer(@, mod.tasks[id].key),
                            !.tasks[id].state = "done"],
                [NoOut EXCEPT !.op = "timer", !.app = id,
                              !.user = mod.tasks[id].key[2], !.result = "Done"])

(***************************************************************************)
(* SpecMute: mute with and without a duration, unmute and the unmute       *)
(* tasks, for two members of one guild, the handlers interleaving at       *)
(* their awaits.                                                           *)
(***************************************************************************)
MuteHandlers == [kind : {"mute", "unmute"}, key : MuteKeys, timed : BOOLEAN]

NextMute ==
    \/ \E k \in MuteKeys, timed \in BOOLEAN, add \in {"ok", "error"} :
          MuteBegin(k, timed, add)
    \/ \E h \in MuteHandlers : MuteResume(h)
    \/ \E k \in MuteKeys, remove \in {"ok", "error"} : UnmuteBegin(k, remove)
    \/ \E h \in MuteHandlers : UnmuteResume(h)
    \/ \E id \in 1..MaxTimers, present \in BOOLEAN : TimerWake(id, present)
    \/ \E id \in 1..MaxTimers : TimerFinish(id)

SpecMute == Init /\ [][NextMute]_vars

(***************************************************************************)
(* Properties.                                                             *)
(***************************************************************************)
\* the step just taken was handler op acting for, or on, x
Ran(op) == out'.op = op
Decision == {"approve", "reject"}

\* C1 (Spec): whatever handlers ran and however the suspended apply handlers
\* interleaved with them, every user owns at most one in_progress row.
C1_AtMostOneInProgress ==
    \A u \in Users : Cardinality(InProgressOf(apps, u)) <= 1

\* a second start of a user went through: its row is there, the row of the
\* first start is gone
C1_RestartedWitness ==
    \E u \in Users : InProgressOf(apps, u) = {2} /\ 1 \notin DOMAIN apps

\* C2 (Spec): an application that is accepted, rejected or withdrawn keeps
\* its row and its status in every step.
C2_TerminalIsFinal ==
    [][\A id \in DOMAIN apps :
          apps[id].status \in Terminal =>
              id \in DOMAIN apps' /\ apps'[id].status = apps[id].status]_vars

\* the number of questions of the position an application is for
NumQuestions(a, id) == Len(GetPosition(positions, a[id].position_id).questions)

\* the answers an in_progress row has collected so far
NumAnswers(a, id) == IF a[id].answers = <<>> THEN 0 ELSE 1

\* C3 as claimed (SpecIntake): for a position with N >= 2 questions, an
\* answer that is not the N-th (and is not refused as expired) leaves the
\* application in_progress.
C3_SequentialIntake ==
    [][\A u \in Users :
          (Ran("answer") /\ out'.user = u /\ HasInProgress(apps, u)
              /\ out'.result # "expired") =>
          LET id == GetInProgressApplication(apps, u)
          IN  (NumQuestions(apps, id) >= 2
                  /\ NumAnswers(apps, id) + 1 < NumQuestions(apps, id)) =>
              (id \in DOMAIN apps' /\ apps'[id].status = "in_progress")]_vars

\* C3 amended (SpecIntake): for a position with N >= 2 questions the prompt
\* of start lists all N questions with the indices 1..N, and the first
\* answer within the expiry window marks the application submitted, with the
\* text of that one message as its stored answers.
C3_SingleMessageIntake ==
    [][/\ (Ran("apply") /\ out'.result = "Prompted") =>
              LET p == pending'[Len(pending')].position_id
                  qs == GetPosition(positions, p).questions
              IN  Len(qs) >= 2 =>
                      /\ Len(out'.prompt) = Len(qs)
                      /\ \A i \in 1..Len(qs) : out'.prompt[i] = <<i, qs[i]>>
       /\ \A u \in Users :
              (Ran("answer") /\ out'.user = u /\ HasInProgress(apps, u)
                  /\ out'.result # "expired") =>
              LET id == GetInProgressApplication(apps, u)
              IN  NumQuestions(apps, id) >= 2 =>
                      /\ NumAnswers(apps, id) = 0
                      /\ id \in DOMAIN apps'
                      /\ apps'[id].status = "submitted"
                      /\ apps'[id].answers = out'.text]_vars

\* the first answer to a two-question position was just taken
C3_SubmittedWitness ==
    /\ out.op = "answer" /\ out.result = "submitted"
    /\ out.app \in DOMAIN apps
    /\ NumQuestions(apps, out.app) = 2
    /\ apps[out.app].status = "submitted"
    /\ apps[out.app].answers # <<>>

\* C4 (SpecIntake): apply invoked by a blacklisted user, for any position,
\* ends as Blocked, sends nothing, suspends nothing that would create a row
\* later, and leaves the applications table as it was.
C4_BlacklistedBlocked ==
    [][(Ran("apply") /\ out'.result # "Started" /\ out'.user \in blacklist) =>
          /\ out'.result = "Blocked"
          /\ out'.dm = <<>>
          /\ apps' = apps
          /\ nextId' = nextId
          /\ pending' = pending]_vars

\* a blacklisted user with an in_progress row was just turned away
C4_BlockedWitness ==
    /\ out.op = "apply" /\ out.result = "Blocked"
    /\ out.user \in blacklist
    /\ HasInProgress(apps, out.user)

\* C5 (SpecReview): approve and reject of an accepted, rejected or withdrawn
\* application end as AlreadyProcessed, leave the table as it was, and give
\* no role, send no direct message and post nothing.
C5_AlreadyProcessed ==
    [][\A id \in DOMAIN apps :
          (out'.op \in Decision /\ out'.app = id /\ apps[id].status \in Terminal) =>
              /\ out'.result = "AlreadyProcessed"
              /\ apps' = apps
              /\ out'.granted = <<>>
              /\ out'.dm = <<>>
              /\ out'.posts = <<>>]_vars

\* a decision on a withdrawn application was just refused
C5_RefusedWitness ==
    /\ out.op \in Decision /\ out.result = "AlreadyProcessed"
    /\ out.app \in DOMAIN apps
    /\ apps[out.app].status = "withdrawn"

\* C6 (SpecIntake): an answer of a user whose in_progress row is older than
\* 24 hours ends as expired and deletes the row; at an age of at most 24
\* hours it is not refused and submits the row; an id that was handed out
\* and is gone never comes back (so the expired row is never submitted);
\* every start that goes through leaves the user with exactly one fresh
\* in_progress row.
C6_Expiry ==
    [][/\ \A u \in Users :
              (Ran("answer") /\ out'.user = u /\ HasInProgress(apps, u)) =>
              LET id == GetInProgressApplication(apps, u)
              IN  IF now - apps[id].submission_date > ExpiryHours
                  THEN /\ out'.result = "expired"
                       /\ id \notin DOMAIN apps'
                       /\ ~HasInProgress(apps', u)
                  ELSE /\ out'.result = "submitted"
                       /\ id \in DOMAIN apps'
                       /\ apps'[id].status = "submitted"
       /\ \A id \in 1..(nextId - 1) : id \notin DOMAIN apps => id \notin DOMAIN apps'
       /\ (Ran("apply") /\ out'.result = "Started") =>
              /\ out'.app = nextId
              /\ InProgressOf(apps', out'.user) = {out'.app}
              /\ apps'[out'.app].submission_date = now
              /\ apps'[out'.app].answers = <<>>]_vars

\* an answer was just refused as expired and its row is gone
C6_ExpiredWitness ==
    /\ out.op = "answer" /\ out.result = "expired"
    /\ out.app \notin DOMAIN apps

\* the statuses in which an application awaits its decision
Eligible == {"submitted", "pending", "under_review"}

\* C7 as claimed (SpecReview): approve and reject of an application that
\* awaits its decision commit the new status and make one direct-message
\* attempt to the applicant; when it failed and an applications channel is
\* configured, one post to the channel was made that mentions the applicant
\* and carries the message; when it succeeded, none.
C7_FallbackWheneverConfigured ==
    [][\A id \in DOMAIN apps :
          (out'.op \in Decision /\ out'.app = id /\ apps[id].status \in Eligible) =>
              /\ out'.result \in {"Approved", "Rejected"}
              /\ apps'[id].status = out'.status
              /\ Len(out'.dm) = 1
              /\ out'.dm[1].to = apps[id].user_id
              /\ out'.dm[1].msg = out'.text
              /\ (out'.dm[1].outcome = "ok" => out'.posts = <<>>)
              /\ (out'.dm[1].outcome # "ok" /\ channel # NoChannel) =>
                     /\ Len(out'.posts) = 1
                     /\ out'.posts[1].user = apps[id].user_id
                     /\ out'.posts[1].msg = out'.text]_vars

\* C7 amended (SpecReview): ... when the attempt failed and an applications
\* channel is configured and is found in the guild, one post to the channel
\* was attempted (it may itself fail) that mentions the applicant and
\* carries the message; in every other case nothing was posted.
C7_FallbackWhenChannelFound ==
    [][\A id \in DOMAIN apps :
          (out'.op \in Decision /\ out'.app = id /\ apps[id].status \in Eligible) =>
              /\ out'.result \in {"Approved", "Rejected"}
              /\ apps'[id].status = out'.status
              /\ out'.status = (IF out'.op = "approve" THEN "accepted" ELSE "rejected")
              /\ Len(out'.dm) = 1
              /\ out'.dm[1].to = apps[id].user_id
              /\ out'.dm[1].msg = out'.text
              /\ out'.dm[1].outcome = out'.env.dm
              /\ IF out'.env.dm # "ok" /\ channel # NoChannel /\ out'.env.channelPresent
                 THEN /\ Len(out'.posts) = 1
                      /\ out'.posts[1].user = apps[id].user_id
                      /\ out'.posts[1].msg = out'.text
                      /\ out'.posts[1].outcome = out'.env.post
                 ELSE out'.posts = <<>>]_vars

\* a rejection with a reason whose direct message was refused was just
\* posted to the applications channel
C7_FallbackWitness ==
    /\ out.op = "reject" /\ out.result = "Rejected"
    /\ out.dm[1].outcome = "forbidden"
    /\ Len(out.posts) = 1
    /\ out.posts[1].msg = <<"bad", " ", "fit">>

\* C8 (SpecStore): set_application_status of an existing row to the status
\* it has returns False and leaves the table as it was; to another status
\* it returns True and changes the status of that row and nothing else;
\* either way a second call with the same arguments, made right after,
\* returns False and changes nothing.
C8_SetStatusIdempotent ==
    [][\A id \in DOMAIN apps :
          (Ran("set_application_status") /\ out'.app = id) =>
              /\ IF apps[id].status = out'.status
                 THEN out'.result = "False" /\ apps' = apps
                 ELSE /\ out'.result = "True"
                      /\ apps' = [apps EXCEPT ![id].status = out'.status]
              /\ LET again == SetApplicationStatus(apps', id, out'.status)
                 IN  ~again.ok /\ again.apps = apps']_vars

\* a row older than the clock was just set to the status it had
C8_NoChangeWitness ==
    /\ out.op = "set_application_status" /\ out.result = "False"
    /\ out.app \in DOMAIN apps
    /\ apps[out.app].status = out.status
    /\ apps[out.app].submission_date < now

\* the role ids mapped to manage_applications that exist in the guild
StaffRolesPresent(env) ==
    {r \in env.guildRoles :
        \E i \in 1..Len(env.permRoles) :
            IsInt(env.permRoles[i]) /\ ParseInt(env.permRoles[i]) = r}

\* C9 (SpecHook): when an application was submitted and posted to the
\* applications channel, then, if its user is flagged (for the guild or
\* globally), a mention line was posted first that names exactly the roles
\* mapped to manage_applications that exist in the guild, or carries the
\* "@Staff" token when there is none; if the user has no flag, the post is
\* the only one.
C9_StaffMention ==
    (out.op = "answer" /\ out.result = "submitted"
        /\ \E i \in 1..Len(out.posts) : out.posts[i].kind = "submission") =>
    LET u == out.user
        mentions == {i \in 1..Len(out.posts) : out.posts[i].kind = "mention"}
    IN  /\ (u \in DOMAIN flags /\ flags[u] \in {Null, Guild}) =>
               /\ mentions = {1}
               /\ Range(out.posts[1].roles) = StaffRolesPresent(out.env)
               /\ out.posts[1].staff = (StaffRolesPresent(out.env) = {})
        /\ u \notin DOMAIN flags => mentions = {}

\* a flagged user's submission was just posted with a mention line from
\* which a mapped entry was dropped
C9_MentionWitness ==
    /\ out.op = "answer" /\ out.result = "submitted"
    /\ out.user \in DOMAIN flags
    /\ Len(out.posts) = 2
    /\ out.posts[1].roles = <<20>>
    /\ Len(out.env.permRoles) = 2

\* C10 (SpecReview): approve and reject of a flagged application leave it
\* flagged, give no role and send no decision notification.
C10_FlaggedFrozen ==
    [][\A id \in DOMAIN apps :
          (out'.op \in Decision /\ out'.app = id /\ apps[id].status = "flagged") =>
              /\ id \in DOMAIN apps'
              /\ apps'[id].status = "flagged"
              /\ out'.granted = <<>>
              /\ out'.dm = <<>>
              /\ out'.posts = <<>>]_vars

\* C11 (Spec): a step that changes the status of a flagged application
\* leaves it submitted, pending or under_review.
C11_FlaggedExitsToPending ==
    [][\A id \in DOMAIN apps :
          (apps[id].status = "flagged"
              /\ (id \notin DOMAIN apps' \/ apps'[id].status # "flagged")) =>
              /\ id \in DOMAIN apps'
              /\ apps'[id].status \in Eligible]_vars

\* C12 (SpecIntake): when the prompt DM of apply is not delivered (refused,
\* or failing otherwise), the handler ends there: no row is created then or
\* later, and the table, with any in_progress row of the user, is as before.
C12_PromptFailureStartsNothing ==
    [][(Ran("apply") /\ out'.dm # <<>> /\ out'.dm[1].outcome # "ok") =>
          /\ out'.result \in {"DMFailed", "Error"}
          /\ apps' = apps
          /\ nextId' = nextId
          /\ pending' = pending]_vars

\* the prompt was just refused to a user who has an in_progress row
C12_RefusedWitness ==
    /\ out.op = "apply" /\ out.result = "DMFailed"
    /\ out.dm[1].outcome = "forbidden"
    /\ HasInProgress(apps, out.user)

\* C13 (SpecIntake): apply of a user who is not blacklisted ends as NotFound
\* for a position id without a row and as Closed for a position that is not
\* open; either way nothing is sent, nothing is suspended and the table is
\* as before.
C13_NotFoundOrClosed ==
    [][(Ran("apply") /\ out'.result # "Started" /\ out'.user \notin blacklist) =>
          LET p == out'.position
              refused == /\ out'.dm = <<>>
                         /\ out'.prompt = <<>>
                         /\ apps' = apps
                         /\ nextId' = nextId
                         /\ pending' = pending
          IN  IF p \notin DOMAIN positions
              THEN out'.result = "NotFound" /\ refused
              ELSE IF ~positions[p].open
              THEN out'.result = "Closed" /\ refused
              ELSE out'.result \notin {"NotFound", "Closed"}]_vars

\* apply for the closed position was just refused to a user who has an
\* in_progress row
C13_ClosedWitness ==
    /\ out.op = "apply" /\ out.result = "Closed"
    /\ out.position \in DOMAIN positions
    /\ HasInProgress(apps, out.user)

\* C14 (SpecStart): the step of apply that starts the application of user
\* u removes the in_progress rows of u and adds one row, in_progress,
\* without answers and dated now, under an id never used before; every
\* other row, of u or of another user, is as before.
C14_StartReplacesOwnInProgress ==
    [][(Ran("apply") /\ out'.result = "Started") =>
          \E i \in 1..Len(pending) :
              LET u == pending[i].user
                  id == out'.app
                  own == {j \in DOMAIN apps :
                             apps[j].user_id = u /\ apps[j].status = "in_progress"}
              IN  /\ pending' = RemoveAt(pending, i)
                  /\ out'.user = u
                  /\ id = nextId /\ id \notin DOMAIN apps
                  /\ DOMAIN apps' = (DOMAIN apps \ own) \cup {id}
                  /\ apps'[id] = [user_id |-> u,
                                  position_id |-> pending[i].position_id,
                                  answers |-> <<>>, status |-> "in_progress",
                                  submission_date |-> now]
                  /\ \A j \in DOMAIN apps' \ {id} : apps'[j] = apps[j]]_vars

\* an application was just started, later than the in_progress application
\* of the other user, which is still there
C14_BesideOtherWitness ==
    /\ out.op = "apply" /\ out.result = "Started"
    /\ out.app \in DOMAIN apps
    /\ apps[out.app].submission_date > 0
    /\ \E j \in DOMAIN apps :
          /\ apps[j].user_id # out.user
          /\ apps[j].status = "in_progress"
          /\ apps[j].submission_date < apps[out.app].submission_date

\* the outcomes of the completion hook in which the submission did not
\* reach the applications channel or the applicant was not told so
Unrouted ==
    {"saved_no_guild", "saved_no_channel", "saved_channel_missing", "none", "error"}

\* C15 (SpecRoute): an answer within the expiry window leaves the row
\* submitted, with the answers and the time of submission, and every other
\* row as before, whatever the completion hook ran into: no guild, no
\* applications channel configured, the channel missing, a post refused or
\* failing, the confirmation to the applicant refused or failing.
C15_HookNeverReverts ==
    [][\A u \in Users :
          (Ran("answer") /\ out'.user = u /\ HasInProgress(apps, u)
              /\ now - apps[GetInProgressApplication(apps, u)].submission_date
                     <= ExpiryHours) =>
          LET id == GetInProgressApplication(apps, u)
          IN  /\ out'.result = "submitted"
              /\ out'.reply \in Unrouted \cup {"submitted"}
              /\ apps' = [apps EXCEPT ![id] =
                            [@ EXCEPT !.status = "submitted",
                                      !.answers = out'.text,
                                      !.submission_date = now]]]_vars

\* a submission whose post to the applications channel just failed
C15_PostFailedWitness ==
    /\ out.op = "answer" /\ out.result = "submitted"
    /\ out.reply = "error"
    /\ Len(out.posts) = 1
    /\ out.posts[1].kind = "submission"
    /\ out.posts[1].outcome = "error"
    /\ apps[out.app].status = "submitted"

\* the step just taken attempted no role grant, no DM and no post
NoSideEffect ==
    /\ out'.granted = <<>> /\ out'.failed = <<>> /\ out'.done = <<>>
    /\ out'.dm = <<>> /\ out'.posts = <<>>

\* C16 (SpecApprove): the segment of approve that writes accepted attempts
\* no role grant, DM or post; a call of approve that does not write attempts
\* none either and suspends nothing; roles, DM and post are attempted only
\* by the resumption of a handler that wrote, and whatever fails in them,
\* that step leaves the table as it is.
C16_CommitBeforeEffects ==
    [][Ran("approve") =>
          /\ out'.result \in {"NotFound", "AlreadyProcessed", "FailedToUpdate",
                              "Committed", "Approved"}
          /\ out'.result \in {"NotFound", "AlreadyProcessed", "FailedToUpdate"} =>
                 /\ NoSideEffect
                 /\ apps' = apps
                 /\ pending' = pending
          /\ out'.result = "Committed" =>
                 /\ NoSideEffect
                 /\ out'.app \in DOMAIN apps
                 /\ apps' = [apps EXCEPT ![out'.app].status = "accepted"]
                 /\ Len(pending') = Len(pending) + 1
                 /\ pending'[Len(pending')].kind = "approve"
                 /\ pending'[Len(pending')].app = out'.app
          /\ out'.result = "Approved" =>
                 /\ apps' = apps
                 /\ \E i \in 1..Len(pending) :
                        /\ pending[i].kind = "approve"
                        /\ pending[i].app = out'.app
                        /\ pending' = RemoveAt(pending, i)]_vars

\* the role grant of an approval was just refused, and the application is
\* accepted
C16_FailedGrantWitness ==
    /\ out.op = "approve" /\ out.result = "Approved"
    /\ out.env.add = "forbidden"
    /\ out.granted = <<>> /\ out.failed # <<>>
    /\ apps[out.app].status = "accepted"

\* the outcome roles of the position an approval was for
OutcomeRoles == GetPosition(positions, out.position).roles_given

\* role r is in roles_failed, with reason why
FailedAs(r, why) == \E k \in 1..Len(out.failed) : out.failed[k] = <<r, why>>
Failed(r) == \E k \in 1..Len(out.failed) : out.failed[k][1] = r

\* C17 (SpecApprove): in an approval of an applicant who is a member, an
\* outcome role that is gone from the guild is not given and is reported
\* failed as role_not_found, one the bot does not outrank is not given and
\* is reported failed as role_above_bot, and when add_roles succeeds every
\* other outcome role is given and reported so.
C17_UnassignableSkipped ==
    (out.op = "approve" /\ out.result = "Approved" /\ out.env.member) =>
        \A r \in Range(OutcomeRoles) :
            /\ out.env.role[r] = "missing" =>
                   /\ r \notin Range(out.granted) /\ r \notin Range(out.done)
                   /\ FailedAs(r, "role_not_found")
            /\ out.env.role[r] = "above" =>
                   /\ r \notin Range(out.granted) /\ r \notin Range(out.done)
                   /\ FailedAs(r, "role_above_bot")
            /\ (out.env.role[r] = "ok" /\ out.env.add = "ok") =>
                   /\ r \in Range(out.granted) /\ r \in Range(out.done)
                   /\ ~Failed(r)

\* an approval just skipped role 10, which the bot does not outrank, and
\* gave role 20
C17_SkippedWitness ==
    /\ out.op = "approve" /\ out.result = "Approved"
    /\ out.env.role[10] = "above"
    /\ out.granted = <<20>>
    /\ out.failed = << <<10, "role_above_bot">> >>

\* the roles the handler passed to add_roles, and the one whose request failed
Assignable == SelectSeq(OutcomeRoles, LAMBDA r : out.env.role[r] = "ok")
FailingRole ==
    IF out.env.add = "ok" \/ Assignable = <<>> THEN {}
    ELSE {Assignable[IF out.env.failAt > Len(Assignable) THEN Len(Assignable)
                     ELSE out.env.failAt]}

\* C18 (SpecApprove): in an approval of an applicant who is a member, a
\* failed grant of one assignable role leaves every other assignable role
\* given to the member and reported as granted, not as failed.
C18_GrantFailurePerRole ==
    (out.op = "approve" /\ out.result = "Approved" /\ out.env.member) =>
        \A r \in Range(Assignable) \ FailingRole :
            /\ r \in Range(out.done)
            /\ r \in Range(out.granted)
            /\ ~Failed(r)

\* C19 as claimed (SpecApprove): after an approval every outcome role of the
\* position is either reported as granted or reported as failed, not both,
\* whether the applicant is a member of the guild or not.
C19_EveryRoleReported ==
    (out.op = "approve" /\ out.result = "Approved") =>
        \A r \in Range(OutcomeRoles) : (r \in Range(out.granted)) # Failed(r)

\* C19 amended (SpecApprove): ... when the applicant is a member of the
\* guild; when the applicant is not, no role is attempted and both lists
\* are empty.
C19_EveryRoleReportedForMembers ==
    (out.op = "approve" /\ out.result = "Approved") =>
        IF out.env.member
        THEN \A r \in Range(OutcomeRoles) :
                 (r \in Range(out.granted)) # Failed(r)
        ELSE out.granted = <<>> /\ out.failed = <<>> /\ out.done = <<>>

\* an approval just reported one outcome role as granted and the other as
\* failed
C19_OneEachWitness ==
    /\ out.op = "approve" /\ out.result = "Approved"
    /\ out.env.member
    /\ Len(out.granted) = 1 /\ Len(out.failed) = 1
    /\ Range(OutcomeRoles) = Roles

\* C20 (SpecReject): the message of a rejection, in the DM and in the post
\* to the applications channel alike, is the reason when one is given, else
\* the rejection message stored for the position when it has one, else
\* empty.
C20_RejectionMessagePrecedence ==
    [][\A id \in DOMAIN apps :
          (Ran("reject") /\ out'.app = id /\ out'.result = "Rejected") =>
          LET p == apps[id].position_id
              configured == IF p \in DOMAIN positions
                            THEN positions[p].rejection_message ELSE <<>>
              expected == IF out'.reason # <<>> THEN out'.reason ELSE configured
          IN  /\ Len(out'.dm) = 1
              /\ out'.dm[1].msg = expected
              /\ \A k \in 1..Len(out'.posts) : out'.posts[k].msg = expected
              /\ out'.env.dm # "ok" => Len(out'.posts) = 1]_vars

\* a rejection with a reason, for a position that has a rejection message,
\* was just posted to the applications channel with the reason
C20_ReasonOverridesWitness ==
    /\ out.op = "reject" /\ out.result = "Rejected"
    /\ out.reason # <<>>
    /\ apps[out.app].position_id \in DOMAIN positions
    /\ positions[apps[out.app].position_id].rejection_message # <<>>
    /\ Len(out.posts) = 1
    /\ out.posts[1].msg = out.reason

\* the labels appstatus knows, after lower() and strip()
Vocabulary ==
    {"pending", "under review", "under_review", "accepted", "denied", "rejected",
     "withdrawn", "flagged", "on hold", "on_hold"}

\* the label the step just taken was given, after lower() and strip()
TypedKey == LabelKey(out'.text[1])

\* C21 (SpecLabel): appstatus with a label outside its vocabulary ends as
\* InvalidStatus, whatever the id; with a label whose status is the one the
\* application has it ends as NoChange, and so do both 'denied' and
\* 'rejected' on a rejected application; either way the table is as before
\* and nothing is posted.
C21_InvalidLabelOrNoChange ==
    [][Ran("appstatus") =>
          /\ TypedKey \notin Vocabulary =>
                 /\ out'.result = "InvalidStatus"
                 /\ apps' = apps
                 /\ out'.posts = <<>>
          /\ \A id \in DOMAIN apps :
                 (out'.app = id /\ TypedKey \in Vocabulary) =>
                     /\ (out'.status = apps[id].status
                            \/ (TypedKey \in {"denied", "rejected"}
                                   /\ apps[id].status = "rejected")) =>
                            /\ out'.result = "NoChange"
                            /\ apps' = apps
                            /\ out'.posts = <<>>
                     /\ out'.result = "NoChange" => apps[id].status = out'.status]_vars

\* 'denied' was just typed for a rejected application
C21_DeniedOnRejectedWitness ==
    /\ out.op = "appstatus" /\ out.result = "NoChange"
    /\ out.text = << " denied " >>
    /\ out.app \in DOMAIN apps
    /\ apps[out.app].status = "rejected"

\* C22 (SpecFlag): flag_app of a flagged application ends as AlreadyFlagged
\* and unflag_app of an application that is not flagged ends as NotFlagged,
\* both with the table as before; unflag_app of a flagged application sets
\* its status to submitted and changes nothing else, whatever status the
\* application had when it was flagged.
C22_FlagUnflag ==
    [][\A id \in DOMAIN apps :
          /\ (Ran("flag_app") /\ out'.app = id /\ apps[id].status = "flagged") =>
                 /\ out'.result = "AlreadyFlagged"
                 /\ apps' = apps
          /\ (Ran("unflag_app") /\ out'.app = id) =>
                 IF apps[id].status # "flagged"
                 THEN /\ out'.result = "NotFlagged"
                      /\ apps' = apps
                 ELSE /\ out'.result = "Unflagged"
                      /\ apps' = [apps EXCEPT ![id].status = "submitted"]]_vars

\* an application that was flagged while it was being filled in (it has no
\* answers) was just unflagged
C22_UnflaggedWitness ==
    /\ out.op = "unflag_app" /\ out.result = "Unflagged"
    /\ out.app \in DOMAIN apps
    /\ apps[out.app].status = "submitted"
    /\ apps[out.app].answers = <<>>

\* the approve handlers suspended for application id
ApproveTasks(tasks, id) ==
    {i \in 1..Len(tasks) : tasks[i].kind = "approve" /\ tasks[i].app = id}

\* C23 (SpecApprove): an invocation of approve for an application that an
\* earlier invocation has accepted, whether that one has finished or is
\* suspended before its role grants and notification, ends as
\* AlreadyProcessed, writes nothing, suspends nothing and attempts no role
\* grant, DM or post; so at most one handler is ever suspended for an
\* application, only the invocation that found it not accepted commits,
\* and the roles and the notification are attempted once, by the
\* resumption of that invocation.
C23_DoubleApprove ==
    [][\A id \in DOMAIN apps :
          /\ Cardinality(ApproveTasks(pending', id)) <= 1
          /\ ApproveTasks(pending, id) # {} => apps[id].status = "accepted"
          /\ apps[id].status = "accepted" =>
                 id \in DOMAIN apps' /\ apps'[id].status = "accepted"
          /\ (Ran("approve") /\ out'.app = id) =>
                 /\ out'.result = "Committed" =>
                        /\ apps[id].status # "accepted"
                        /\ ApproveTasks(pending, id) = {}
                        /\ apps'[id].status = "accepted"
                 /\ (apps[id].status = "accepted" /\ out'.result # "Approved") =>
                        /\ out'.result = "AlreadyProcessed"
                        /\ NoSideEffect
                        /\ apps' = apps
                        /\ pending' = pending
                 /\ out'.result = "Approved" =>
                        /\ Cardinality(ApproveTasks(pending, id)) = 1
                        /\ ApproveTasks(pending', id) = {}
                        /\ Len(out'.dm) = 1]_vars

\* a second approve was just refused while the first is suspended before
\* its role grants
C23_RefusedWhileSuspendedWitness ==
    /\ out.op = "approve" /\ out.result = "AlreadyProcessed"
    /\ ApproveTasks(pending, out.app) # {}

UnflaggedPosts(u, text, env) ==
    IF env.guild /\ channel # NoChannel /\ env.channelPresent
    THEN <<ChannelPost("submission", <<>>, u, FALSE, text, env.send2)>>
    ELSE <<>>

\* C25 (SpecRoute): an answer of a user, flagged or not, who has an
\* in_progress row within the expiry window marks that row submitted and
\* changes no other row; what is posted to the applications channel for a
\* flagged user is what is posted for a user without a flag, with the staff
\* mention added in front.
C25_FlagOnlyAddsMention ==
    [][\A u \in Users :
          (Ran("answer") /\ out'.user = u /\ HasInProgress(apps, u)
              /\ now - apps[GetInProgressApplication(apps, u)].submission_date
                     <= ExpiryHours) =>
          LET id == GetInProgressApplication(apps, u)
              plain == UnflaggedPosts(u, out'.text, out'.env)
          IN  /\ apps' = [apps EXCEPT ![id] =
                            [@ EXCEPT !.status = "submitted",
                                      !.answers = out'.text,
                                      !.submission_date = now]]
              /\ SelectSeq(out'.posts, LAMBDA p : p.kind # "mention") = plain
              /\ (u \notin DOMAIN flags) => out'.posts = plain
              /\ (u \in DOMAIN flags /\ plain # <<>>) =>
                     /\ Len(out'.posts) = Len(plain) + 1
                     /\ out'.posts[1].kind = "mention"]_vars

\* C26 (SpecAnswer): a direct message of a user who has no in_progress row
\* ends as NoInProgress: the applications table, with the rows of every
\* user, is as before, no id is used up, and nothing is posted to the
\* applications channel.
C26_NoInProgress ==
    [][\A u \in Users :
          (Ran("answer") /\ out'.user = u
              /\ ~\E i \in DOMAIN apps :
                     apps[i].user_id = u /\ apps[i].status = "in_progress") =>
              /\ out'.result = "NoInProgress"
              /\ apps' = apps
              /\ nextId' = nextId
              /\ out'.posts = <<>>]_vars

\* a user whose application is submitted just sent another message, while
\* the other user has an in_progress row
C26_BystanderWitness ==
    /\ out.op = "answer" /\ out.result = "NoInProgress"
    /\ \E i \in DOMAIN apps :
          apps[i].user_id = out.user /\ apps[i].status = "submitted"
    /\ \E i \in DOMAIN apps :
          apps[i].user_id # out.user /\ apps[i].status = "in_progress"

\* the questions and the outcome roles get_position returns
QuestionsOf(pos, p) == GetPosition(pos, p).questions
RolesOf(pos, p) == GetPosition(pos, p).roles_given

\* C27 (SpecCatalog): a list of questions, or of role ids, written to a
\* position with modify is the list get_position returns afterwards; a
\* question added with add_question is the last question afterwards, behind
\* the questions there were; or else the call changes nothing (it rejects
\* the value).
C27_ListsRoundTrip ==
    [][\A p \in DOMAIN positions :
          /\ (Ran("modify_questions") /\ out'.position = p) =>
                 \/ QuestionsOf(positions', p) = out'.value
                 \/ positions' = positions
          /\ (Ran("modify_roles") /\ out'.position = p) =>
                 \/ RolesOf(positions', p) = out'.value
                 \/ positions' = positions
          /\ (Ran("add_question") /\ out'.position = p) =>
                 \/ QuestionsOf(positions', p) =
                        Append(QuestionsOf(positions, p), out'.text)
                 \/ positions' = positions]_vars

\* C28 (SpecReject): delete of a position removes the row of that position
\* and nothing else: every application, those for the deleted position
\* included, keeps its id, user, position_id, answers, status and date, and
\* every other position keeps its id and its row; for an id without a row
\* it changes nothing.
C28_DeleteOnlyDefinition ==
    [][Ran("delete") =>
          LET p == out'.position IN
          /\ apps' = apps
          /\ nextId' = nextId
          /\ DOMAIN positions' = DOMAIN positions \ {p}
          /\ \A q \in DOMAIN positions' : positions'[q] = positions[q]
          /\ out'.result = (IF p \in DOMAIN positions THEN "Deleted" ELSE "NotFound")]_vars

\* a position that has a submitted application was just deleted
C28_OrphanWitness ==
    /\ out.op = "delete" /\ out.result = "Deleted"
    /\ out.position \notin DOMAIN positions
    /\ DOMAIN positions # {}
    /\ \E i \in DOMAIN apps :
          apps[i].position_id = out.position /\ apps[i].status = "submitted"

\* C29 (SpecFlags): is_user_flagged with a guild id returns True exactly
\* when the user has a flag row whose guild_id is NULL or is that guild id;
\* without a guild id, exactly when the user has a flag row; so a flag for
\* one guild never answers True for another.
C29_IsFlagged ==
    out.op = "is_user_flagged" =>
        LET u == out.user
            g == out.value
            row == u \in DOMAIN flags
        IN  /\ g # Null =>
                   (out.result = "True") = (row /\ (flags[u] = Null \/ flags[u] = g))
            /\ g = Null => (out.result = "True") = row
            /\ (row /\ flags[u] # Null /\ g # Null /\ flags[u] # g) =>
                   out.result = "False"
            /\ out.result \in {"True", "False"}

\* a user flagged for one guild was just looked up for another, while the
\* other user has a global flag
C29_OtherScopeWitness ==
    /\ out.op = "is_user_flagged" /\ out.result = "False"
    /\ out.user \in DOMAIN flags
    /\ flags[out.user] = OtherGuild /\ out.value = Guild
    /\ \E v \in DOMAIN flags : v # out.user /\ flags[v] = Null

\* C30 (SpecReview): approve and reject of an application that is
\* in_progress leave it in_progress, give no role and send no decision
\* notification.
C30_InProgressNotDecided ==
    [][\A id \in DOMAIN apps :
          (out'.op \in Decision /\ out'.app = id /\ apps[id].status = "in_progress") =>
              /\ id \in DOMAIN apps'
              /\ apps'[id].status = "in_progress"
              /\ out'.granted = <<>>
              /\ out'.dm = <<>>
              /\ out'.posts = <<>>]_vars

\* C31 as claimed (SpecLabel): appstatus posts its notice to the
\* applications channel exactly when it changed the status of an
\* application to on_hold and an applications channel is configured.
C31_NoticeWheneverConfigured ==
    [][Ran("appstatus") =>
          /\ Len(out'.posts) <= 1
          /\ (out'.posts # <<>>) =
                 (out'.result = "StatusUpdated" /\ out'.status = "on_hold"
                     /\ channel # NoChannel)]_vars

\* C31 amended (SpecLabel): ... and an applications channel is configured
\* and is found in the guild; the post is attempted once (it may itself
\* fail) and is the on-hold notice; in every other case, a relabel to
\* another status and every relabel that fails included, nothing is posted.
C31_NoticeWhenChannelFound ==
    [][Ran("appstatus") =>
          IF out'.result = "StatusUpdated" /\ out'.status = "on_hold"
                /\ channel # NoChannel /\ out'.env.channelPresent
          THEN /\ Len(out'.posts) = 1
               /\ out'.posts[1].kind = "on_hold"
               /\ out'.posts[1].outcome = out'.env.post
               /\ out'.app \in DOMAIN apps
               /\ apps[out'.app].status # "on_hold"
               /\ apps'[out'.app].status = "on_hold"
          ELSE out'.posts = <<>>]_vars

\* an application was just put on hold and the notice was posted
C31_OnHoldWitness ==
    /\ out.op = "appstatus" /\ out.result = "StatusUpdated"
    /\ out.app \in DOMAIN apps
    /\ apps[out.app].status = "on_hold"
    /\ Len(out.posts) = 1
    /\ out.posts[1].outcome = "ok"

\* C32 (SpecRoute): when the answer of a flagged user was submitted and
\* something was posted to the applications channel, the first post is the
\* mention line and the submission follows it, the row is submitted, and
\* when the post of the mention line failed the applicant is not told that
\* the submission failed.
C32_MentionFirstNeverFails ==
    (out.op = "answer" /\ out.result = "submitted" /\ out.user \in DOMAIN flags
        /\ out.posts # <<>>) =>
        /\ out.posts[1].kind = "mention"
        /\ \A k \in 2..Len(out.posts) : out.posts[k].kind = "submission"
        /\ out.app \in DOMAIN apps
        /\ apps[out.app].status = "submitted"
        /\ out.posts[1].outcome # "ok" => out.reply # "error"

\* C33 (SpecReject): approve and reject of an application that awaits its
\* decision and whose position has no row any more end as Approved and
\* Rejected: the status is written, one direct message to the applicant is
\* attempted, which names the position as "ID <position_id>" and carries
\* no configured message, and no role is given or reported.
C33_DeletedPositionDecided ==
    [][\A id \in DOMAIN apps :
          (out'.op \in Decision /\ out'.app = id /\ apps[id].status \in Eligible
              /\ apps[id].position_id \notin DOMAIN positions) =>
              /\ out'.result = (IF out'.op = "approve" THEN "Approved" ELSE "Rejected")
              /\ apps' = [apps EXCEPT ![id].status =
                            IF out'.op = "approve" THEN "accepted" ELSE "rejected"]
              /\ Len(out'.dm) = 1
              /\ out'.dm[1].to = apps[id].user_id
              /\ out'.dm[1].msg = out'.reason
              /\ out'.shown = <<"ID", apps[id].position_id>>
              /\ out'.granted = <<>> /\ out'.failed = <<>> /\ out'.done = <<>>]_vars

\* an application for a deleted position was just approved
C33_ApprovedOrphanWitness ==
    /\ out.op = "approve" /\ out.result = "Approved"
    /\ out.position \notin DOMAIN positions
    /\ out.shown = <<"ID", out.position>>
    /\ apps[out.app].status = "accepted"
    /\ Len(out.dm) = 1

\* C34 (SpecRace): with starts of one user suspended in their direct
\* message while other starts and answers of the user run, the user never
\* has two in_progress rows; the start that resumes leaves exactly its own
\* new row in_progress, whatever is still suspended; an answer either finds
\* no in_progress row and changes nothing, or acts on the only row that is
\* in_progress at that moment, and the rows a start deleted stay deleted.
C34_LastWriterWins ==
    [][/\ \A u \in Users : Cardinality(InProgressOf(apps', u)) <= 1
       /\ (Ran("apply") /\ out'.result = "Started") =>
              /\ InProgressOf(apps', out'.user) = {out'.app}
              /\ out'.app \notin DOMAIN apps
              /\ \A j \in InProgressOf(apps, out'.user) : j \notin DOMAIN apps'
       /\ Ran("answer") =>
              /\ DOMAIN apps' \subseteq DOMAIN apps
              /\ IF InProgressOf(apps, out'.user) = {}
                 THEN out'.result = "NoInProgress" /\ apps' = apps
                 ELSE /\ InProgressOf(apps, out'.user) = {out'.app}
                      /\ \A j \in DOMAIN apps' \ {out'.app} : apps'[j] = apps[j]
                      /\ InProgressOf(apps', out'.user) = {}]_vars

\* a start just replaced the row of an earlier start of the user while a
\* third start of the user is still suspended
C34_OverlapWitness ==
    /\ out.op = "apply" /\ out.result = "Started"
    /\ out.app > 1
    /\ DOMAIN apps = {out.app}
    /\ pending # <<>>
    /\ pending[1].user = out.user

\* the stored answers of the direct messages an applicant may send
AnswerTexts == {MessageAnswers(m) : m \in Messages}

\* C35 as claimed (SpecIntake): the direct message of a user who has an
\* in_progress row moves that row to submitted with the text of the message
\* as its answers.
C35_FirstMessageSubmitted ==
    [][\A u \in Users :
          (Ran("answer") /\ out'.user = u /\ InProgressOf(apps, u) # {}) =>
              \E id \in InProgressOf(apps, u) :
                  /\ id \in DOMAIN apps'
                  /\ apps'[id].status = "submitted"
                  /\ apps'[id].answers \in AnswerTexts]_vars

\* C35 amended (SpecIntake): the direct message of a user who has an
\* in_progress row not older than 24 hours moves that row, and no other,
\* to submitted, with the text of the message and its attachment URLs as
\* the answers; an older row is deleted instead and nothing is posted.
\* Either way the user has no in_progress row afterwards, only a start
\* gives the user one again, and a direct message of a user without one
\* changes no row, posts nothing and is not answered.
C35_FirstMessageInTimeSubmitted ==
    [][/\ \A u \in Users :
              (Ran("answer") /\ out'.user = u) =>
                  /\ InProgressOf(apps', u) = {}
                  /\ IF InProgressOf(apps, u) = {}
                     THEN /\ apps' = apps
                          /\ out'.posts = <<>> /\ out'.reply = "none"
                     ELSE \E id \in InProgressOf(apps, u) :
                          IF now - apps[id].submission_date <= ExpiryHours
                          THEN /\ apps' = [apps EXCEPT ![id] =
                                             [@ EXCEPT !.status = "submitted",
                                                       !.answers = out'.text,
                                                       !.submission_date = now]]
                               /\ out'.text \in AnswerTexts
                               /\ out'.result = "submitted"
                          ELSE /\ apps' = [j \in DOMAIN apps \ {id} |-> apps[j]]
                               /\ out'.posts = <<>>
       /\ \A u \in Users :
              (InProgressOf(apps, u) = {} /\ InProgressOf(apps', u) # {}) =>
                  (Ran("apply") /\ out'.result = "Started" /\ out'.user = u)]_vars

\* a direct message that carried an attachment was just submitted, and the
\* stored answers list the URL
C35_AttachmentWitness ==
    /\ out.op = "answer" /\ out.result = "submitted"
    /\ out.app \in DOMAIN apps
    /\ apps[out.app].status = "submitted"
    /\ apps[out.app].answers = <<"Attachments:", "\n", "url">>

\* C36 (SpecSuspend): whenever apply inserts an in_progress row, the user
\* is not blacklisted and the position of the row exists and is open at
\* that moment.
C36_InsertOnlyWhenAllowed ==
    [][(Ran("apply") /\ out'.result = "Started") =>
          LET row == apps'[out'.app]
          IN  /\ ~IsUserBlacklisted(blacklist, row.user_id)
              /\ HasPosition(positions, row.position_id)
              /\ GetPosition(positions, row.position_id).open]_vars

\* C37 (SpecDecide): an application that approve, reject or withdraw has
\* written keeps that status whatever runs afterwards; a call of approve,
\* reject or withdraw that finds it so writes nothing, suspends nothing and
\* attempts no role grant, DM or post; approve suspends for its side
\* effects only in the step in which it writes accepted, so at most once
\* per application, and only that resumption grants roles; the only other
\* DM is sent by reject in the step in which it writes rejected.
C37_OneDecisionCommits ==
    [][\A id \in DOMAIN apps :
          /\ apps[id].status \in Terminal =>
                 (id \in DOMAIN apps' /\ apps'[id].status = apps[id].status)
          /\ Cardinality(ApproveTasks(pending', id)) >
                 Cardinality(ApproveTasks(pending, id)) =>
                 /\ apps[id].status \notin Terminal
                 /\ apps'[id].status = "accepted"
                 /\ ApproveTasks(pending, id) = {}
          /\ (out'.op \in {"approve", "reject", "withdraw"} /\ out'.app = id) =>
                 /\ (apps[id].status \in Terminal /\ out'.result # "Approved") =>
                        /\ apps' = apps /\ pending' = pending
                        /\ NoSideEffect
                        /\ out'.result \in {"AlreadyProcessed", "AlreadyWithdrawn",
                                             "CannotWithdraw"}
                 /\ out'.result = "Approved" =>
                        (apps[id].status = "accepted" /\ apps' = apps)
                 /\ out'.dm # <<>> =>
                        \/ out'.result = "Approved"
                        \/ /\ out'.result = "Rejected"
                           /\ apps[id].status \notin Terminal
                           /\ apps'[id].status = "rejected"
                 /\ (out'.granted # <<>> \/ out'.done # <<>>) =>
                        out'.result = "Approved"]_vars

\* reject was just refused for an application whose approve has written
\* accepted and is still suspended before its roles and its DM
C37_RejectDuringApproveWitness ==
    /\ out.op = "reject" /\ out.result = "AlreadyProcessed"
    /\ ApproveTasks(pending, out.app) # {}
    /\ apps[out.app].status = "accepted"

C39_WithdrawOwnOnly ==
    [][Ran("withdraw") =>
          /\ DOMAIN apps' = DOMAIN apps
          /\ \A j \in DOMAIN apps :
                 apps[j].user_id # out'.user =>
                     /\ apps'[j] = apps[j]
                     /\ out'.app = j =>
                            /\ out'.result = "PermissionDenied"
                            /\ apps' = apps
                            /\ out'.posts = <<>>
          /\ out'.result = "Withdrawn" =>
                 /\ apps[out'.app].user_id = out'.user
                 /\ apps'[out'.app].status = "withdrawn"]_vars

\* a user was just refused the withdrawal of the submitted application of
\* another user while having a submitted application of their own
C39_ForeignRefusedWitness ==
    /\ out.op = "withdraw" /\ out.result = "PermissionDenied"
    /\ out.app \in DOMAIN apps
    /\ apps[out.app].user_id # out.user
    /\ apps[out.app].status = "submitted"
    /\ SubmittedOf(apps, out.user) # {}

\* the tasks of a key that will still act
LiveTasks(m, key) ==
    {i \in 1..Len(m.tasks) :
        m.tasks[i].key = key /\ m.tasks[i].state \in {"sleeping", "removing"}}

\* C40 (SpecMute): a key never has two unmute tasks that will still act,
\* and the one it has is the one stored in _unmute_tasks; the mute that
\* schedules a task leaves the key with that task only; the unmute that
\* got the role removed leaves the key without such a task and without
\* mute_timers rows; a cancelled task stays cancelled, and the only steps
\* of a task are those of a task that was not cancelled.
C40_OneUnmuteTaskPerKey ==
    [][/\ \A k \in MuteKeys :
              /\ Cardinality(LiveTasks(mod', k)) <= 1
              /\ LiveTasks(mod', k) \subseteq {mod'.registry[k]}
       /\ (Ran("mute") /\ out'.result = "Scheduled") =>
              /\ LiveTasks(mod', <<Guild, out'.user>>) = {out'.app}
              /\ out'.app \notin 1..Len(mod.tasks)
       /\ (Ran("unmute") /\ out'.result = "Unmuted") =>
              /\ LiveTasks(mod', <<Guild, out'.user>>) = {}
              /\ mod'.rows[<<Guild, out'.user>>] = 0
       /\ \A i \in 1..Len(mod.tasks) :
              mod.tasks[i].state = "cancelled" =>
                  /\ mod'.tasks[i].state = "cancelled"
                  /\ ~(Ran("timer") /\ out'.app = i)
       /\ Ran("timer") =>
              /\ out'.app \in LiveTasks(mod, <<Guild, out'.user>>)
              /\ \A k \in MuteKeys : k # <<Guild, out'.user>> =>
                     (k \in mod.muted <=> k \in mod'.muted)]_vars

\* unmute just cancelled the sleeping task of a timed mute, and the member
\* has been muted again since the role was removed
C40_CancelledByUnmuteWitness ==
    /\ out.op = "unmute" /\ out.result = "Unmuted"
    /\ out.app \in 1..Len(mod.tasks)
    /\ mod.tasks[out.app].state = "cancelled"
    /\ <<Guild, out.user>> \in mod.muted

====
